---- MODULE Spec2Model ----
(***************************************************************************)
(* Device-command resilience layer of the GSM SMS gateway add-on           *)
(* (src/addon-gsm-gateway/mqtt_publisher.py, run.py).                      *)
(*                                                                         *)
(* The model covers DeviceConnectivityTracker, the operation executor      *)
(* MQTTPublisher.track_gammu_operation with its recovery controller        *)
(* (_attempt_reconnect_if_needed, _check_restart_timeout,                  *)
(* _trigger_emergency_reset), the SMSC cache and the threads that drive    *)
(* them: the SMS monitor loop, a status poller and a REST send handler.    *)
(*                                                                         *)
(* Time is the value of time.time() in seconds.  Timestamps that are None  *)
(* in the source are NoTime; an operation name that is None is the empty   *)
(* sequence NoOperation.  Operation names are sequences of characters so   *)
(* that lower() and the substring test of record_success are computed.     *)
(***************************************************************************)
EXTENDS Integers, Sequences, FiniteSets, TLC

(***************************************************************************)
(* Bounds of the model.                                                    *)
(***************************************************************************)
\* cap of the consecutive failure counters
MaxFailures == 5

(***************************************************************************)
(* Program constants.                                                      *)
(***************************************************************************)
offline_timeout == 900
reconnect_threshold == 5
reconnect_cooldown == 60
restart_timeout == 120
hard_offline_restart_timeout == 30
smsc_cache_ttl == 3600
\* future.result(timeout=15)
OperationTimeout == 15

NoTime == -1
NoOperation == <<>>

\* time.time() when the process starts: last_reconnect_attempt starts at 0
\* and the epoch clock is far beyond one cooldown
StartTime == reconnect_cooldown
\* the instants at which the model observes the process: up to three
\* executor timeouts after the start (below, at and beyond the hard-offline
\* restart threshold) and one restart_timeout after the start
Instants == {StartTime + d : d \in {0, OperationTimeout, 2 * OperationTimeout,
                                     3 * OperationTimeout, restart_timeout}}
\* the instants at which the tracker alone is observed: one more, an executor
\* timeout more than offline_timeout after the start
TrackerInstants == Instants \cup {StartTime + offline_timeout + OperationTimeout}

(***************************************************************************)
(* Operation names and str.lower() / substring.                            *)
(***************************************************************************)
SendSMS == <<"S","e","n","d","S","M","S">>
retrieveAllSms == <<"r","e","t","r","i","e","v","e","A","l","l","S","m","s">>
GetSignalQuality == <<"G","e","t","S","i","g","n","a","l","Q","u","a","l","i","t","y">>
Reset == <<"R","e","s","e","t">>
OperationNames == {SendSMS, retrieveAllSms, GetSignalQuality, Reset}

UpperCase == <<"A","B","C","D","E","F","G","H","I","J","K","L","M",
               "N","O","P","Q","R","S","T","U","V","W","X","Y","Z">>
LowerCase == <<"a","b","c","d","e","f","g","h","i","j","k","l","m",
               "n","o","p","q","r","s","t","u","v","w","x","y","z">>

lower_char(c) ==
    IF \E i \in 1..26 : UpperCase[i] = c
    THEN LowerCase[CHOOSE i \in 1..26 : UpperCase[i] = c]
    ELSE c

lower(s) == [i \in 1..Len(s) |-> lower_char(s[i])]

\* Python's  sub in s
Contains(s, sub) ==
    \E i \in 1..(Len(s) - Len(sub) + 1) : SubSeq(s, i, i + Len(sub) - 1) = sub

(***************************************************************************)
(* Gammu error codes.  NoCode is an exception without a Gammu code.        *)
(***************************************************************************)
NoCode == 0
RECOVERABLE_ERROR_CODES == {2, 11, 14, 31, 33, 37, 56, 69}
\* faulty variant of DEVICE_ERROR_CODES: only ERR_DEVICEOPENERROR is a device
\* error
DEVICE_OPEN_ERROR_ONLY == {2}
DEVICE_ERROR_CODES == {2, 11}
\* the codes an outcome is drawn from: the two device errors, 14 for the
\* other recoverable codes, 27 (ERR_EMPTY) for the coded errors that are not
\* recoverable, and an exception without code
ErrorCodes == {2, 11, 14, 27, NoCode}

Threads == {"rest", "rest2", "mqtt", "monitor", "status", "drain"}
NoThread == "none"
\* the threads that handle a send request: two REST workers and the MQTT
\* client thread
Senders == {"rest", "rest2", "mqtt"}
\* the threads that call track_gammu_operation("SendSMS", ...): the senders
\* and the thread of process_pending_sms
SendThreads == Senders \cup {"drain"}

VARIABLES
    now,                      \* time.time()
    auto_restart_on_failure,  \* config
    auto_recovery,            \* config
    device_tracker,           \* DeviceConnectivityTracker fields
    publisher,                \* MQTTPublisher recovery / cache fields
    gammu_lock,               \* holder of MQTTPublisher.gammu_lock
    started_at,               \* submit time of the pending future
    in_flight,                \* modem commands executing on the link
    pc,                       \* position of every thread
    op,                       \* operation name of the thread's executor call
    exited,                   \* os._exit(1) was called
    hard_offline_since,       \* history: when hard_offline last became true
    sms_queue,                \* SMSQueue: pending list and queue file
    queue_result,             \* the last SMSQueue call and what it returned
    request,                  \* the request each sender handles or handled last
    drain_pending,            \* process_pending_sms: the rest of its snapshot
    sms_counter,              \* SMSCounter: messages sent
    sms_dedup_cache,          \* run.py _sms_dedup_cache: key -> entry
    retained,                 \* broker: the retained payload of <prefix>/queue_sms
    mqtt_inbox,               \* queue_sms payloads delivered, not yet handled
    delivery_tracker,         \* SMSDeliveryTracker: pending_deliveries and file
    delivery_result,          \* the last SMSDeliveryTracker call and its result
    emergency,                \* _trigger_emergency_reset: the call in progress or last made
    held,                     \* the locks each thread holds, in the order taken
    todo,                     \* the lock operations each thread has still to do
    handling                  \* the queue_sms message in the hands of the handler

vars == <<now, auto_restart_on_failure, auto_recovery, device_tracker,
          publisher, gammu_lock, started_at, in_flight, pc, op, exited,
          hard_offline_since, sms_queue, queue_result, request,
          drain_pending, sms_counter, sms_dedup_cache, retained, mqtt_inbox,
          delivery_tracker, delivery_result, emergency, held, todo,
          handling>>

\* the retained queue topic, the delivery tracker and the steps of the
\* emergency reset, which the executor seen whole, the queue and the REST
\* handlers leave alone
store_vars ==
    <<retained, mqtt_inbox, delivery_tracker, delivery_result, emergency,
      held, todo, handling>>

\* the state of the request front apart from the queue
front_vars == <<request, drain_pending, sms_counter, sms_dedup_cache>>

\* the state of the queue and of the request front, which the executor
\* leaves alone
request_vars == <<sms_queue, queue_result, front_vars>>

(***************************************************************************)
(* DeviceConnectivityTracker.  The bookkeeping fields last_error,           *)
(* total_operations and successful_operations are written but never read   *)
(* by the resilience layer and are left out.                               *)
(***************************************************************************)
\* 'sms' in operation_name.lower(), computed once for every operation name
SmsNames == {n \in OperationNames : Contains(lower(n), <<"s","m","s">>)}

\* the same without lower()
CaseSensitiveSmsNames == {n \in OperationNames : Contains(n, <<"s","m","s">>)}

\* faulty variant of is_sms_operation: the substring test without lower()
is_sms_operation_case_sensitive(operation_name) ==
    /\ operation_name # NoOperation
    /\ operation_name \in CaseSensitiveSmsNames

\* operation_name and 'sms' in operation_name.lower()
is_sms_operation(operation_name) ==
    /\ operation_name # NoOperation
    /\ operation_name \in SmsNames

\* operation_name and operation_name == self.hard_offline_operation
is_same_operation(dt, operation_name) ==
    /\ operation_name # NoOperation
    /\ operation_name = dt.hard_offline_operation

\* the tracker after record_success(operation_name) at time t
record_success(dt, operation_name, t) ==
    LET stamped == [dt EXCEPT !.last_success_time = t]
        qualifies == is_sms_operation(operation_name)
                        \/ is_same_operation(dt, operation_name)
        cleared == IF dt.hard_offline
                   THEN [stamped EXCEPT !.hard_offline = FALSE,
                                        !.hard_offline_operation = NoOperation,
                                        !.consecutive_failures = 0]
                   ELSE stamped
    IN  IF dt.hard_offline /\ ~qualifies
        THEN stamped
        ELSE [cleared EXCEPT !.consecutive_failures = 0,
                             !.initial_check_done = TRUE]

\* faulty variant of record_failure: a timeout sets hard_offline but does not
\* remember the operation
record_failure_without_operation(dt, is_timeout, operation_name) ==
    LET counted == [dt EXCEPT !.consecutive_failures = @ + 1]
    IN  IF is_timeout THEN [counted EXCEPT !.hard_offline = TRUE] ELSE counted

\* the tracker after record_failure(msg, is_timeout, operation_name)
record_failure(dt, is_timeout, operation_name) ==
    LET counted == [dt EXCEPT !.consecutive_failures = @ + 1]
    IN  IF is_timeout
        THEN [counted EXCEPT !.hard_offline = TRUE,
                             !.hard_offline_operation = operation_name]
        ELSE counted

\* faulty variant of get_status: the offline_timeout test is missing
get_status_without_offline_timeout(dt, t) ==
    IF ~dt.initial_check_done THEN "offline"
    ELSE IF dt.last_success_time = NoTime THEN "offline"
    ELSE IF dt.consecutive_failures >= 2 THEN "offline"
    ELSE IF dt.hard_offline THEN "offline"
    ELSE "online"

get_status(dt, t) ==
    IF ~dt.initial_check_done THEN "offline"
    ELSE IF dt.last_success_time = NoTime THEN "offline"
    ELSE IF dt.consecutive_failures >= 2 THEN "offline"
    ELSE IF dt.hard_offline THEN "offline"
    ELSE IF t - dt.last_success_time > offline_timeout THEN "offline"
    ELSE "online"

get_status_unlocked(dt, t) ==
    IF ~dt.initial_check_done THEN "offline"
    ELSE IF dt.last_success_time = NoTime THEN "offline"
    ELSE IF dt.consecutive_failures >= 2 THEN "offline"
    ELSE IF dt.hard_offline THEN "offline"
    ELSE IF t - dt.last_success_time > offline_timeout THEN "offline"
    ELSE "online"

get_status_data(dt, t) ==
    [status |-> get_status_unlocked(dt, t),
     consecutive_failures |-> dt.consecutive_failures,
     hard_offline |-> dt.hard_offline,
     hard_offline_operation |->
         IF dt.hard_offline /\ dt.hard_offline_operation # NoOperation
         THEN dt.hard_offline_operation ELSE NoOperation,
     seconds_since_last_success |->
         IF dt.last_success_time # NoTime THEN t - dt.last_success_time ELSE NoTime]

get_consecutive_failures(dt) == dt.consecutive_failures

(***************************************************************************)
(* Recovery controller.  A handler state s is                              *)
(*   [pub |-> publisher fields, dt |-> tracker fields, exited |-> BOOLEAN] *)
(* and every operator returns the handler state after the call; once       *)
(* os._exit(1) ran (s.exited) nothing further executes.                    *)
(***************************************************************************)
\* faulty variant of check_restart_timeout: the threshold is restart_timeout
\* whatever the tracker says
check_restart_timeout_standard_only(s, t) ==
    IF s.exited \/ ~auto_restart_on_failure THEN s
    ELSE LET start == IF s.pub.failure_start_time = NoTime
                      THEN t ELSE s.pub.failure_start_time
         IN  [s EXCEPT !.pub.failure_start_time = start,
                       !.exited = (t - start >= restart_timeout)]

\* _check_restart_timeout()
check_restart_timeout(s, t) ==
    IF s.exited \/ ~auto_restart_on_failure THEN s
    ELSE LET start == IF s.pub.failure_start_time = NoTime
                      THEN t ELSE s.pub.failure_start_time
             failure_duration == t - start
             effective_timeout == IF s.dt.hard_offline
                                  THEN hard_offline_restart_timeout
                                  ELSE restart_timeout
         IN  [s EXCEPT !.pub.failure_start_time = start,
                       !.exited = (failure_duration >= effective_timeout)]

\* faulty variant of attempt_reconnect_if_needed: the cooldown since the
\* previous attempt is not observed
attempt_reconnect_without_cooldown(s, t, reconnect_ok) ==
    IF s.exited \/ ~auto_recovery THEN s
    ELSE IF s.pub.consecutive_failures < reconnect_threshold THEN s
    ELSE LET tried == [s EXCEPT !.pub.last_reconnect_attempt = t]
         IN  IF reconnect_ok
             THEN [tried EXCEPT !.pub.consecutive_failures = 0]
             ELSE check_restart_timeout(tried, t)

\* reconnect_ok is the result of _reconnect_gammu()
attempt_reconnect_if_needed(s, t, reconnect_ok) ==
    IF s.exited \/ ~auto_recovery THEN s
    ELSE IF s.pub.consecutive_failures < reconnect_threshold THEN s
    ELSE IF t - s.pub.last_reconnect_attempt < reconnect_cooldown THEN s
    ELSE LET tried == [s EXCEPT !.pub.last_reconnect_attempt = t]
         IN  IF reconnect_ok
             THEN [tried EXCEPT !.pub.consecutive_failures = 0]
             ELSE check_restart_timeout(tried, t)

\* soft_ok: Reset(False) returned; probe_ok: GetManufacturer() returned;
\* reconnect_ok: result of _reconnect_gammu().  The three only decide the
\* return value, which track_gammu_operation ignores.
trigger_emergency_reset(s, t, error_code, soft_ok, probe_ok, reconnect_ok) ==
    IF s.exited THEN s
    ELSE IF error_code \in DEVICE_ERROR_CODES
    THEN [s EXCEPT !.exited = auto_restart_on_failure]
    ELSE LET start == IF s.pub.failure_start_time = NoTime
                      THEN t ELSE s.pub.failure_start_time
             failure_duration == t - start
             timed == [s EXCEPT !.pub.failure_start_time = start]
         IN  IF failure_duration >= restart_timeout /\ auto_restart_on_failure
             THEN [timed EXCEPT !.exited = TRUE]
             ELSE [timed EXCEPT !.pub.cached_smsc = FALSE,
                                !.pub.smsc_cache_time = NoTime]

(***************************************************************************)
(* track_gammu_operation: what runs between the outcome of the future and  *)
(* the end of the with-blocks.                                             *)
(***************************************************************************)
\* faulty variant of the success branch: the restart timer is reset on every
\* success
on_success_always_reset(s, t, operation_name) ==
    [s EXCEPT !.dt = record_success(s.dt, operation_name, t),
              !.pub.consecutive_failures = 0,
              !.pub.failure_start_time = NoTime]

\* faulty variant of the success branch: a success shadowed by hard-offline
\* returns without the timer check
on_success_without_check(s, t, operation_name) ==
    LET recorded == [s EXCEPT !.dt = record_success(s.dt, operation_name, t),
                              !.pub.consecutive_failures = 0]
    IN  IF ~recorded.dt.hard_offline
        THEN [recorded EXCEPT !.pub.failure_start_time = NoTime]
        ELSE recorded

\* the success branch, lines 2693-2705
on_success(s, t, operation_name) ==
    LET recorded == [s EXCEPT !.dt = record_success(s.dt, operation_name, t),
                              !.pub.consecutive_failures = 0]
    IN  IF ~recorded.dt.hard_offline
        THEN [recorded EXCEPT !.pub.failure_start_time = NoTime]
        ELSE check_restart_timeout(recorded, t)

\* faulty variant of the timeout branch: the failure is recorded and the
\* reconnect considered, but the restart timer is not checked
on_timeout_without_check(s, t, operation_name, reconnect_ok) ==
    LET recorded == [s EXCEPT !.pub.consecutive_failures = @ + 1,
                              !.dt = record_failure(s.dt, TRUE, operation_name)]
    IN  attempt_reconnect_if_needed(recorded, t, reconnect_ok)

on_timeout(s, t, operation_name, reconnect_ok) ==
    LET recorded == [s EXCEPT !.pub.consecutive_failures = @ + 1,
                              !.dt = record_failure(s.dt, TRUE, operation_name)]
    IN  check_restart_timeout(
            attempt_reconnect_if_needed(recorded, t, reconnect_ok), t)

needs_reset_retry(error_code) ==
    error_code # NoCode /\ error_code \in RECOVERABLE_ERROR_CODES

on_error(s, t, operation_name, error_code, soft_ok, probe_ok, reconnect_ok) ==
    IF needs_reset_retry(error_code)
    THEN trigger_emergency_reset(s, t, error_code, soft_ok, probe_ok, reconnect_ok)
    ELSE LET recorded == [s EXCEPT !.pub.consecutive_failures = @ + 1,
                                   !.dt = record_failure(s.dt, FALSE, operation_name)]
         IN  check_restart_timeout(
                 attempt_reconnect_if_needed(recorded, t, reconnect_ok), t)

(***************************************************************************)
(* SMSQueue.  A queue q is [pending |-> self.pending, file |-> the document *)
(* at SMS_QUEUE_FILE]; an entry is a record of number, text, queued_at and *)
(* attempts (its smsc is carried along and never read by the queue).  The  *)
(* four public methods hold self._lock for their whole body, so each is    *)
(* one step.  Every operator returns the queue after the call and the      *)
(* value the call returns.                                                 *)
(***************************************************************************)
SMS_QUEUE_EXPIRY_SECONDS == 3600

\* cap of the length of the pending list
MaxQueue == 2
\* cap of the attempts of an entry
MaxAttempts == 1

\* recipients and texts, as sequences of characters
Numbers == {<<"1">>, <<"1", "|", "2">>}
Texts == {<<"3">>, <<"2", "|", "3">>}

\* os.path.exists(self.queue_file) is false
NoFile == [exists |-> FALSE, pending |-> <<>>]

\* _save(): the document {'pending': self.pending} replaces the file
save(pending) == [exists |-> TRUE, pending |-> pending]

\* how the write of _save ends: the file is written; os.makedirs or open
\* raises and the file stays as it was; json.dump raises after open(..., 'w')
\* has truncated the file.  _save catches the exception and logs it
WriteOutcomes == {"written", "no_directory", "not_opened", "torn"}

\* the file after _save() of pending ended as outcome.  A torn file is one
\* json.load raises on: _load then starts with an empty list, as it does
\* from a file that holds no entry
save_with(outcome, file, pending) ==
    CASE outcome = "written" -> save(pending)
      [] outcome \in {"no_directory", "not_opened"} -> file
      [] outcome = "torn" -> save(<<>>)

\* faulty variant of persist: a write that fails undoes the call
persist_or_undo(outcome, q, r) ==
    IF outcome = "written" THEN r ELSE [r EXCEPT !.queue = q]

\* the result r of a queue method called on q when the write of its _save
\* ends as outcome.  The methods call _save exactly when they have changed
\* the list, after the change
persist(outcome, q, r) ==
    IF r.queue.pending = q.pending THEN r
    ELSE [r EXCEPT !.queue.file = save_with(outcome, q.file, r.queue.pending)]

\* msg.get('number') == number and msg.get('text') == text
matches(msg, number, text) == msg.number = number /\ msg.text = text

is_pending(pending, number, text) ==
    \E i \in 1..Len(pending) : matches(pending[i], number, text)

\* the entry the for loops of remove and increment_attempts stop at
first_match(pending, number, text) ==
    CHOOSE i \in 1..Len(pending) :
       /\ matches(pending[i], number, text)
       /\ \A j \in 1..(i - 1) : ~matches(pending[j], number, text)

\* the test of the list comprehension of _clear_expired
is_kept(msg, t) == t - msg.queued_at < SMS_QUEUE_EXPIRY_SECONDS

\* _clear_expired() at time t
clear_expired(q, t) ==
    IF q.pending = <<>> THEN q
    ELSE LET kept == SelectSeq(q.pending, LAMBDA msg : is_kept(msg, t))
             expired_count == Len(q.pending) - Len(kept)
         IN  IF expired_count > 0
             THEN [pending |-> kept, file |-> save(kept)]
             ELSE [q EXCEPT !.pending = kept]

\* faulty variant of add: no duplicate check
add_without_check(q, number, text, t) ==
    LET appended == Append(q.pending, [number |-> number, text |-> text,
                                       queued_at |-> t, attempts |-> 0])
    IN  [queue |-> [pending |-> appended, file |-> save(appended)],
         returns |-> TRUE]

\* add(number, text) at time t
add(q, number, text, t) ==
    IF is_pending(q.pending, number, text)
    THEN [queue |-> q, returns |-> FALSE]
    ELSE LET appended == Append(q.pending, [number |-> number, text |-> text,
                                            queued_at |-> t, attempts |-> 0])
         IN  [queue |-> [pending |-> appended, file |-> save(appended)],
              returns |-> TRUE]

\* the list after self.pending.pop(i)
pop(pending, i) == SubSeq(pending, 1, i - 1) \o SubSeq(pending, i + 1, Len(pending))

\* faulty variant of remove: the oldest entry is popped
remove_oldest(q, number, text) ==
    IF is_pending(q.pending, number, text)
    THEN LET popped == pop(q.pending, 1)
         IN  [queue |-> [pending |-> popped, file |-> save(popped)],
              returns |-> TRUE]
    ELSE [queue |-> q, returns |-> FALSE]

\* remove(number, text)
remove(q, number, text) ==
    IF is_pending(q.pending, number, text)
    THEN LET popped == pop(q.pending, first_match(q.pending, number, text))
         IN  [queue |-> [pending |-> popped, file |-> save(popped)],
              returns |-> TRUE]
    ELSE [queue |-> q, returns |-> FALSE]

\* faulty variant of increment_attempts: the entry is dropped after the
\* failed attempt
drop_attempted(q, number, text) ==
    IF is_pending(q.pending, number, text)
    THEN LET popped == pop(q.pending, first_match(q.pending, number, text))
         IN  [queue |-> [pending |-> popped, file |-> save(popped)],
              returns |-> 0]
    ELSE [queue |-> q, returns |-> 0]

\* increment_attempts(number, text)
increment_attempts(q, number, text) ==
    IF is_pending(q.pending, number, text)
    THEN LET i == first_match(q.pending, number, text)
             counted == [q.pending EXCEPT ![i].attempts = @ + 1]
         IN  [queue |-> [pending |-> counted, file |-> save(counted)],
              returns |-> counted[i].attempts]
    ELSE [queue |-> q, returns |-> 0]

\* get_pending() at time t
get_pending(q, t) ==
    LET cleared == clear_expired(q, t)
    IN  [queue |-> cleared, returns |-> cleared.pending]

\* get_count()
get_count(q) == Len(q.pending)

\* SMSQueue.__init__ at time t: _load() reads the file and clears the
\* expired entries
load(file, t) ==
    IF file.exists
    THEN clear_expired([pending |-> file.pending, file |-> file], t)
    ELSE [pending |-> <<>>, file |-> file]

\* no SMSQueue method has been called
NoResult == [op |-> "none", number |-> <<>>, text |-> <<>>, ok |-> FALSE,
             attempts |-> 0, returned |-> <<>>, before |-> <<>>]

(***************************************************************************)
(* Request front: run.py SmsCollection.post and SmsGet.get, and the MQTT   *)
(* send command and send buttons (_send_sms_via_gammu).                    *)
(***************************************************************************)
_sms_dedup_window == 15

\* dedup_key = f"{sms_number}|{sms_text}"
dedup_key(number, text) == number \o <<"|">> \o text

\* the keys the requests of the model can have
DedupKeys == {dedup_key(number, text) : number \in Numbers, text \in Texts}

\* no entry under a key of _sms_dedup_cache.  The dict holds the timestamp
\* at; number and text are history, the request that wrote the entry
NoEntry == [at |-> NoTime, number |-> <<>>, text |-> <<>>]

\* the sender has handled no request; once a request is sent or has failed
\* only the response is kept
NoRequest == [path |-> "none", number |-> <<>>, text |-> <<>>,
              received_at |-> NoTime, response |-> "none"]

\* the send paths a sender serves
PathsOf(t) == IF t = "mqtt" THEN {"command", "button"} ELSE {"post", "get"}

\* the paths that call queue_sms_for_retry before the send
QueueingPaths == {"post", "get"}

(***************************************************************************)
(* SMSDeliveryTracker.  pending_deliveries is a dict: the sequence of its  *)
(* items in insertion order, one per message reference.  A timestamp is    *)
(* time.strftime("%Y-%m-%d %H:%M:%S"), the clock read in whole seconds.    *)
(***************************************************************************)
\* SMSDeliveryTracker(max_tracked=50), scaled down
max_tracked == 2

\* the message references SendSMS returns: 0, which is falsy, and one more
\* than the scaled max_tracked
MessageRefs == 0 .. 3

\* the DeliveryStatus values of a status report
DeliveryStatuses == {"Delivered", "Failed"}

\* text_preview[:50]
PreviewLength == 50
text_preview(text) ==
    SubSeq(text, 1, IF Len(text) < PreviewLength THEN Len(text) ELSE PreviewLength)

\* the position of message_ref in the items, 0 if it is not a key
item_of(items, message_ref) ==
    IF \E i \in 1..Len(items) : items[i].ref = message_ref
    THEN CHOOSE i \in 1..Len(items) : items[i].ref = message_ref
    ELSE 0

\* one step of the stable sort: item goes behind the items that sort before
\* it or equal to it
insert_sorted(sorted, item) ==
    LET ahead == {i \in 1..Len(sorted) :
                     sorted[i].sent_timestamp >= item.sent_timestamp}
        k == Cardinality(ahead)
    IN  SubSeq(sorted, 1, k) \o <<item>> \o SubSeq(sorted, k + 1, Len(sorted))

\* sorted(items, key=sent_timestamp, reverse=True): stable, equal keys keep
\* their order
RECURSIVE sorted_items(_)
sorted_items(items) ==
    IF items = <<>> THEN <<>>
    ELSE insert_sorted(sorted_items(SubSeq(items, 1, Len(items) - 1)),
                       items[Len(items)])

\* _save: the items kept, the max_tracked first of the sorted ones when
\* there are more
kept_items(items) ==
    IF Len(items) > max_tracked
    THEN SubSeq(sorted_items(items), 1, max_tracked)
    ELSE items

\* _save()
delivery_save(items) ==
    [pending_deliveries |-> kept_items(items), file |-> kept_items(items)]

\* _save() of the tracker d holding items when its write ends as outcome:
\* os.makedirs comes before the trimming, open and json.dump after it.  A
\* torn file loads as no record
delivery_save_with(outcome, d, items) ==
    CASE outcome = "written" -> delivery_save(items)
      [] outcome = "no_directory" ->
            [pending_deliveries |-> items, file |-> d.file]
      [] outcome = "not_opened" ->
            [pending_deliveries |-> kept_items(items), file |-> d.file]
      [] outcome = "torn" ->
            [pending_deliveries |-> kept_items(items), file |-> <<>>]

\* faulty variant of track_sent_sms_with: the record is stored only when
\* the file was written
track_sent_sms_if_written(outcome, d, message_ref, number, text, t) ==
    IF message_ref # 0 /\ outcome = "written"
    THEN LET item == [ref |-> message_ref, number |-> number,
                      text_preview |-> text_preview(text),
                      sent_timestamp |-> t, status |-> "sent",
                      delivered_timestamp |-> NoTime]
             i == item_of(d.pending_deliveries, message_ref)
         IN  delivery_save(IF i = 0 THEN Append(d.pending_deliveries, item)
                           ELSE [d.pending_deliveries EXCEPT ![i] = item])
    ELSE d

\* track_sent_sms(message_ref, number, text_preview) at time t
track_sent_sms(d, message_ref, number, text, t) ==
    IF message_ref # 0
    THEN LET item == [ref |-> message_ref, number |-> number,
                      text_preview |-> text_preview(text),
                      sent_timestamp |-> t, status |-> "sent",
                      delivered_timestamp |-> NoTime]
             i == item_of(d.pending_deliveries, message_ref)
         IN  delivery_save(IF i = 0 THEN Append(d.pending_deliveries, item)
                           ELSE [d.pending_deliveries EXCEPT ![i] = item])
    ELSE d

\* track_sent_sms(message_ref, number, text_preview) at time t, the write
\* of its _save ending as outcome
track_sent_sms_with(outcome, d, message_ref, number, text, t) ==
    IF outcome = "written"
    THEN track_sent_sms(d, message_ref, number, text, t)
    ELSE IF message_ref # 0
    THEN LET item == [ref |-> message_ref, number |-> number,
                      text_preview |-> text_preview(text),
                      sent_timestamp |-> t, status |-> "sent",
                      delivered_timestamp |-> NoTime]
             i == item_of(d.pending_deliveries, message_ref)
         IN  delivery_save_with(outcome, d,
                IF i = 0 THEN Append(d.pending_deliveries, item)
                ELSE [d.pending_deliveries EXCEPT ![i] = item])
    ELSE d

\* update_delivery_status returns None
NoDelivery == [ref |-> 0, number |-> <<>>, text_preview |-> <<>>,
               sent_timestamp |-> NoTime, status |-> "none",
               delivered_timestamp |-> NoTime]

\* faulty variant of update_delivery_status: the status is written and the
\* time of the report is not
update_status_only(d, message_ref, status, t) ==
    LET i == item_of(d.pending_deliveries, message_ref)
    IN  IF i # 0
        THEN LET updated == [d.pending_deliveries EXCEPT ![i].status = status]
             IN  [tracker |-> delivery_save(updated), returns |-> updated[i]]
        ELSE [tracker |-> d, returns |-> NoDelivery]

\* update_delivery_status(message_ref, status) at time t; the callers pass
\* no timestamp.  The copy returned is read after _save
update_delivery_status(d, message_ref, status, t) ==
    LET i == item_of(d.pending_deliveries, message_ref)
    IN  IF i # 0
        THEN LET updated == [d.pending_deliveries EXCEPT
                                ![i].status = status,
                                ![i].delivered_timestamp = t]
                 saved == delivery_save(updated)
                 j == item_of(saved.pending_deliveries, message_ref)
             IN  [tracker |-> saved,
                  returns |-> IF j # 0 THEN saved.pending_deliveries[j]
                              ELSE NoDelivery]
        ELSE [tracker |-> d, returns |-> NoDelivery]

\* update_delivery_status(message_ref, status) at time t, the write of its
\* _save ending as outcome
update_delivery_status_with(outcome, d, message_ref, status, t) ==
    LET i == item_of(d.pending_deliveries, message_ref)
    IN  IF outcome = "written"
        THEN update_delivery_status(d, message_ref, status, t)
        ELSE IF i # 0
        THEN LET updated == [d.pending_deliveries EXCEPT
                                ![i].status = status,
                                ![i].delivered_timestamp = t]
                 saved == delivery_save_with(outcome, d, updated)
                 j == item_of(saved.pending_deliveries, message_ref)
             IN  [tracker |-> saved,
                  returns |-> IF j # 0 THEN saved.pending_deliveries[j]
                              ELSE NoDelivery]
        ELSE [tracker |-> d, returns |-> NoDelivery]

\* faulty variant of get_pending_count: every record is counted
get_all_count(d) == Len(d.pending_deliveries)

\* get_pending_count()
get_pending_count(d) ==
    Cardinality({i \in 1..Len(d.pending_deliveries) :
                    d.pending_deliveries[i].status = "sent"})

\* clear_pending_deliveries()
clear_pending_deliveries(d) == delivery_save(<<>>)

\* no SMSDeliveryTracker call was made yet.  was is history: the status of
\* the record before the call
NoDeliveryResult == [op |-> "none", ref |-> 0, status |-> "none",
                     was |-> "none", returned |-> NoDelivery]

(***************************************************************************)
(* State machine                                                           *)
(***************************************************************************)
\* _handle_queued_sms_from_mqtt was not called yet.  position is where the
\* handler stands with the payload: "published" after the publish of the
\* clear, "added" after sms_queue.add, "returned" after its return and
\* "crashed" when the process died with the payload in hand; clear_in_flight
\* is the clear published and not yet applied by the broker
NotHandling == [payload |-> <<>>, position |-> "idle",
                clear_in_flight |-> FALSE]

\* no call of _trigger_emergency_reset was made yet.  steps are the calls
\* made on the modem and the sleeps, in order, each [call, ok]; returned
\* is the result of _trigger_emergency_reset; raised is what the caller of
\* track_gammu_operation received
NoEmergency == [thread |-> NoThread, code |-> NoCode, steps |-> <<>>,
                returned |-> "none", raised |-> NoCode,
                err_recoverable_detected |-> FALSE]

GetSMSC == <<"G","e","t","S","M","S","C">>

Init ==
    /\ now = StartTime
    /\ auto_restart_on_failure \in BOOLEAN
    /\ auto_recovery \in BOOLEAN
    /\ device_tracker = [last_success_time |-> NoTime,
                         consecutive_failures |-> 0,
                         initial_check_done |-> FALSE,
                         hard_offline |-> FALSE,
                         hard_offline_operation |-> NoOperation]
    /\ publisher = [consecutive_failures |-> 0,
                    last_reconnect_attempt |-> 0,
                    failure_start_time |-> NoTime,
                    cached_smsc |-> FALSE,
                    smsc_cache_time |-> NoTime]
    /\ gammu_lock = NoThread
    /\ started_at = NoTime
    /\ in_flight = {}
    /\ pc = [t \in Threads |-> "idle"]
    /\ op = [t \in Threads |-> NoOperation]
    /\ exited = FALSE
    /\ hard_offline_since = NoTime
    /\ sms_queue = [pending |-> <<>>, file |-> NoFile]
    /\ queue_result = NoResult
    /\ request = [t \in Senders |-> NoRequest]
    /\ drain_pending = <<>>
    /\ sms_counter = 0
    /\ sms_dedup_cache = [k \in DedupKeys |-> NoEntry]
    /\ retained = <<>>
    /\ mqtt_inbox = <<>>
    /\ delivery_tracker = [pending_deliveries |-> <<>>, file |-> <<>>]
    /\ delivery_result = NoDeliveryResult
    /\ emergency = NoEmergency
    /\ held = [t \in Threads |-> <<>>]
    /\ todo = [t \in Threads |-> <<>>]
    /\ handling = NotHandling

\* the handler state a thread starts from
Handler == [pub |-> publisher, dt |-> device_tracker, exited |-> FALSE]

\* the history variable after the tracker became dt at time t
Since(dt, t) ==
    IF ~dt.hard_offline THEN NoTime
    ELSE IF ~device_tracker.hard_offline THEN t
    ELSE hard_offline_since

\* time.time() advances to the next of the instants while no operation is
\* running
Advance(instants) ==
    /\ ~exited
    /\ UNCHANGED request_vars
    /\ gammu_lock = NoThread
    /\ \E i \in instants :
          /\ i > now
          /\ \A j \in instants : j > now => i <= j
          /\ now' = i
    /\ UNCHANGED <<store_vars, auto_restart_on_failure, auto_recovery, device_tracker,
                   publisher, gammu_lock, started_at, in_flight, pc, op, exited,
                   hard_offline_since>>

Tick == Advance(Instants)

\* the operation a thread passes to track_gammu_operation from its position
NextOperation(t) ==
    IF t = "status" /\ pc[t] = "idle" THEN GetSignalQuality
    ELSE IF t = "monitor" /\ pc[t] = "idle" THEN retrieveAllSms
    ELSE IF t = "monitor" /\ pc[t] = "reset" THEN Reset
    ELSE IF t \in SendThreads /\ pc[t] \in {"send", "retry"} THEN SendSMS
    ELSE NoOperation

\* with self.gammu_lock: the lock can be taken
LockFree == gammu_lock = NoThread

\* a thread may enter track_gammu_operation: the lock is free (and the
\* counters are below the cap of the model)
CanEnter(t, cap) ==
    /\ ~exited
    /\ NextOperation(t) # NoOperation
    /\ LockFree
    /\ device_tracker.consecutive_failures < cap
    /\ publisher.consecutive_failures < cap

\* where the caller continues after track_gammu_operation raised and the
\* tracker is dt.  _sms_monitor_loop, except branch: a soft Reset follows
\* after 2 failures and then at every multiple of 5
AfterFailure(t, operation_name, dt) ==
    IF t = "monitor" /\ operation_name = retrieveAllSms
    THEN LET failures == get_consecutive_failures(dt)
         IN  IF failures = 2 \/ (failures > 2 /\ failures % 5 = 0)
             THEN "reset" ELSE "idle"
    ELSE "idle"

\* where a thread continues after its call raised: the request handlers and
\* process_pending_sms go on in their except branch
AfterRaise(t, operation_name, dt) ==
    IF t \in SendThreads THEN "failed"
    ELSE AfterFailure(t, operation_name, dt)

\* where the caller continues after track_gammu_operation raised an error
\* carrying error_code and the handler state is s.  SmsCollection.post sends
\* once more when the exception is marked err_recoverable_detected
AfterError(t, operation_name, s, error_code) ==
    IF /\ t \in Senders
       /\ pc[t] = "send"
       /\ request[t].path = "post"
       /\ needs_reset_retry(error_code)
       /\ ~s.exited
    THEN "retry"
    ELSE AfterRaise(t, operation_name, s.dt)

\* where the caller continues after track_gammu_operation returned
AfterSuccess(t) == IF t \in SendThreads THEN "sent" ELSE "idle"

\* the success branch found the recovery timer running and the queue not
\* empty: it starts a thread that runs process_pending_sms
StartsDrain(s) ==
    /\ ~s.exited
    /\ publisher.failure_start_time # NoTime
    /\ get_count(sms_queue) > 0

\* one call of track_gammu_operation whose future returned a result
TrackSuccessUnder(cap, t) ==
    /\ CanEnter(t, cap)
    /\ UNCHANGED request_vars
    /\ UNCHANGED <<store_vars, now, auto_restart_on_failure, auto_recovery, gammu_lock,
                   started_at, in_flight, op>>
    /\ LET s == on_success(Handler, now, NextOperation(t))
       IN  /\ StartsDrain(s) => pc["drain"] \in {"idle", "started"}
           /\ pc' = [pc EXCEPT ![t] = AfterSuccess(t),
                               !["drain"] = IF StartsDrain(s) THEN "started"
                                            ELSE IF t = "drain" THEN "sent"
                                            ELSE @]
           /\ exited' = s.exited
           /\ publisher' = s.pub
           /\ device_tracker' = s.dt
           /\ hard_offline_since' = Since(s.dt, now)

\* one call of track_gammu_operation whose future.result(timeout=15) raised
\* concurrent.futures.TimeoutError: the handler runs 15 s after the submit
TrackTimeoutUnder(cap, t, reconnect_ok) ==
    /\ CanEnter(t, cap)
    /\ UNCHANGED request_vars
    /\ now + OperationTimeout \in Instants
    /\ now' = now + OperationTimeout
    /\ UNCHANGED <<store_vars, auto_restart_on_failure, auto_recovery, gammu_lock,
                   started_at, in_flight, op>>
    /\ LET s == on_timeout(Handler, now', NextOperation(t), reconnect_ok)
       IN  /\ exited' = s.exited
           /\ publisher' = s.pub
           /\ device_tracker' = s.dt
           /\ hard_offline_since' = Since(s.dt, now')
    /\ pc' = [pc EXCEPT ![t] = AfterRaise(t, NextOperation(t), device_tracker')]

\* one call of track_gammu_operation whose modem call raised an exception
\* carrying error_code
TrackErrorUnder(cap, t, error_code, soft_ok, probe_ok, reconnect_ok) ==
    /\ CanEnter(t, cap)
    /\ UNCHANGED request_vars
    /\ UNCHANGED <<store_vars, now, auto_restart_on_failure, auto_recovery, gammu_lock,
                   started_at, in_flight, op>>
    /\ LET s == on_error(Handler, now, NextOperation(t), error_code,
                         soft_ok, probe_ok, reconnect_ok)
       IN  /\ exited' = s.exited
           /\ publisher' = s.pub
           /\ device_tracker' = s.dt
           /\ hard_offline_since' = Since(s.dt, now)
           /\ pc' = [pc EXCEPT ![t] = AfterError(t, NextOperation(t), s, error_code)]

\* the three outcomes in the specifications whose counters are capped by
\* MaxFailures
TrackSuccess(t) == TrackSuccessUnder(MaxFailures, t)

TrackTimeout(t, reconnect_ok) ==
    TrackTimeoutUnder(MaxFailures, t, reconnect_ok)

TrackError(t, error_code, soft_ok, probe_ok, reconnect_ok) ==
    TrackErrorUnder(MaxFailures, t, error_code, soft_ok, probe_ok, reconnect_ok)

\* the results of the recovery steps that the handler of an error with
\* error_code can observe: none before a device error exits or returns, the
\* five paths of the soft reset / probe / reconnect ladder for the other
\* recoverable codes, and the result of the automatic reconnect otherwise
RecoveryResults(error_code) ==
    IF error_code \in DEVICE_ERROR_CODES
    THEN {[soft_ok |-> FALSE, probe_ok |-> FALSE, reconnect_ok |-> FALSE]}
    ELSE IF needs_reset_retry(error_code)
    THEN {[soft_ok |-> TRUE, probe_ok |-> TRUE, reconnect_ok |-> FALSE]} \cup
         [soft_ok : {TRUE}, probe_ok : {FALSE}, reconnect_ok : BOOLEAN] \cup
         [soft_ok : {FALSE}, probe_ok : {FALSE}, reconnect_ok : BOOLEAN]
    ELSE [soft_ok : {FALSE}, probe_ok : {FALSE}, reconnect_ok : BOOLEAN]

\* the threads of the recovery specification: the SMS monitor loop and the
\* status poller
Pollers == {"monitor", "status"}

Next ==
    \/ Tick
    \/ \E t \in Pollers : TrackSuccess(t)
    \/ \E t \in Pollers, reconnect_ok \in BOOLEAN : TrackTimeout(t, reconnect_ok)
    \/ \E t \in Pollers, error_code \in ErrorCodes :
          \E r \in RecoveryResults(error_code) :
             TrackError(t, error_code, r.soft_ok, r.probe_ok, r.reconnect_ok)

Spec == Init /\ [][Next]_vars

(***************************************************************************)
(* The tracker alone: record_success and record_failure called in any      *)
(* order with any of the operation names, as its unit tests call them, and  *)
(* observed over a period longer than offline_timeout.                      *)
(***************************************************************************)
RecordSuccess(operation_name) ==
    /\ device_tracker' = record_success(device_tracker, operation_name, now)
    /\ UNCHANGED request_vars
    /\ UNCHANGED <<store_vars, now, auto_restart_on_failure, auto_recovery, publisher,
                   gammu_lock, started_at, in_flight, pc, op, exited,
                   hard_offline_since>>

RecordFailure(is_timeout, operation_name) ==
    /\ device_tracker.consecutive_failures < MaxFailures
    /\ UNCHANGED request_vars
    /\ device_tracker' = record_failure(device_tracker, is_timeout, operation_name)
    /\ UNCHANGED <<store_vars, now, auto_restart_on_failure, auto_recovery, publisher,
                   gammu_lock, started_at, in_flight, pc, op, exited,
                   hard_offline_since>>

TrackerTick == Advance(TrackerInstants)

NextTracker ==
    \/ TrackerTick
    \/ \E operation_name \in OperationNames : RecordSuccess(operation_name)
    \/ \E is_timeout \in BOOLEAN, operation_name \in OperationNames :
          RecordFailure(is_timeout, operation_name)

SpecTracker == Init /\ [][NextTracker]_vars

(***************************************************************************)
(* The link.  The same executor with the steps of one call kept apart: the *)
(* submit under the lock, the outcome of the future, and the end of the    *)
(* executor's with-block, which waits for an abandoned worker.  The REST   *)
(* send handler is the third thread; it reads the SMSC cache first.        *)
(***************************************************************************)
\* cap of the consecutive failure counters on the link
LinkMaxFailures == 2
\* number of executor timeouts the link is observed for
LinkTicks == 2

\* the future of the pending executor call has been waited on for 15 s
TimeoutDue == started_at # NoTime /\ now - started_at >= OperationTimeout

\* time.time() advances; a due timeout is raised before more time passes
Elapse ==
    /\ ~exited
    /\ UNCHANGED request_vars
    /\ now + OperationTimeout <= StartTime + LinkTicks * OperationTimeout
    /\ ~(TimeoutDue /\ \E t \in Threads : pc[t] = "exec")
    /\ now' = now + OperationTimeout
    /\ UNCHANGED <<store_vars, auto_restart_on_failure, auto_recovery, device_tracker,
                   publisher, gammu_lock, started_at, in_flight, pc, op, exited,
                   hard_offline_since>>

\* with self.gammu_lock: ... future = executor.submit(gammu_function)
SubmitUnder(cap, t) ==
    /\ CanEnter(t, cap)
    /\ UNCHANGED request_vars
    /\ gammu_lock' = t
    /\ started_at' = now
    /\ in_flight' = in_flight \cup
                      {[thread |-> t, name |-> NextOperation(t), direct |-> FALSE]}
    /\ pc' = [pc EXCEPT ![t] = "exec"]
    /\ op' = [op EXCEPT ![t] = NextOperation(t)]
    /\ UNCHANGED <<store_vars, now, auto_restart_on_failure, auto_recovery, device_tracker,
                   publisher, exited, hard_offline_since>>

\* the submit in the specifications whose counters are capped by
\* LinkMaxFailures
Submit(t) == SubmitUnder(LinkMaxFailures, t)

\* the link once the executor command of thread t has left it
Landed(t) == {c \in in_flight : ~(c.thread = t /\ ~c.direct)}

\* future.result(timeout=15) returned a result; both with-blocks end
FutureResult(t) ==
    /\ ~exited
    /\ UNCHANGED request_vars
    /\ pc[t] = "exec"
    /\ ~TimeoutDue
    /\ LET s == on_success(Handler, now, op[t])
       IN  /\ StartsDrain(s) => pc["drain"] \in {"idle", "started"}
           /\ pc' = [pc EXCEPT ![t] = "idle",
                               !["drain"] = IF StartsDrain(s) THEN "started" ELSE @]
           /\ device_tracker' = s.dt
           /\ publisher' = s.pub
           /\ exited' = s.exited
           /\ hard_offline_since' = Since(s.dt, now)
    /\ gammu_lock' = NoThread
    /\ started_at' = NoTime
    /\ in_flight' = Landed(t)
    /\ op' = [op EXCEPT ![t] = NoOperation]
    /\ UNCHANGED <<store_vars, now, auto_restart_on_failure, auto_recovery>>

\* future.result(timeout=15) raised concurrent.futures.TimeoutError: the
\* handler runs while the worker is still inside the modem call, and the
\* executor's with-block then waits for the worker with the lock held
FutureTimeout(t, reconnect_ok) ==
    /\ ~exited
    /\ UNCHANGED request_vars
    /\ pc[t] = "exec"
    /\ TimeoutDue
    /\ LET s == on_timeout(Handler, now, op[t], reconnect_ok)
       IN  /\ device_tracker' = s.dt
           /\ publisher' = s.pub
           /\ exited' = s.exited
           /\ hard_offline_since' = Since(s.dt, now)
    /\ pc' = [pc EXCEPT ![t] = "abandoned"]
    /\ UNCHANGED <<store_vars, now, auto_restart_on_failure, auto_recovery, gammu_lock,
                   started_at, in_flight, op>>

\* the abandoned modem call returns: ThreadPoolExecutor.__exit__ completes,
\* the lock is released and the TimeoutError reaches the caller
ExecutorShutdown(t) ==
    /\ ~exited
    /\ UNCHANGED request_vars
    /\ pc[t] = "abandoned"
    /\ gammu_lock' = NoThread
    /\ started_at' = NoTime
    /\ in_flight' = Landed(t)
    /\ pc' = [pc EXCEPT ![t] = AfterFailure(t, op[t], device_tracker)]
    /\ op' = [op EXCEPT ![t] = NoOperation]
    /\ UNCHANGED <<store_vars, now, auto_restart_on_failure, auto_recovery, device_tracker,
                   publisher, exited, hard_offline_since>>

\* the modem call raised an exception carrying error_code; both with-blocks
\* end when the handler re-raises
FutureError(t, error_code, soft_ok, probe_ok, reconnect_ok) ==
    /\ ~exited
    /\ UNCHANGED request_vars
    /\ pc[t] = "exec"
    /\ ~TimeoutDue
    /\ LET s == on_error(Handler, now, op[t], error_code,
                         soft_ok, probe_ok, reconnect_ok)
       IN  /\ device_tracker' = s.dt
           /\ publisher' = s.pub
           /\ exited' = s.exited
           /\ hard_offline_since' = Since(s.dt, now)
    /\ gammu_lock' = NoThread
    /\ started_at' = NoTime
    /\ in_flight' = Landed(t)
    /\ pc' = [pc EXCEPT ![t] = AfterFailure(t, op[t], device_tracker')]
    /\ op' = [op EXCEPT ![t] = NoOperation]
    /\ UNCHANGED <<store_vars, now, auto_restart_on_failure, auto_recovery>>

\* get_cached_smsc(): the cache is missing or older than the ttl
SmscCacheExpired ==
    \/ ~publisher.cached_smsc
    \/ publisher.smsc_cache_time = NoTime
    \/ now - publisher.smsc_cache_time > smsc_cache_ttl

\* SmsCollection.post calls get_cached_smsc(); on an expired cache
\* cache_smsc() calls gammu_machine.GetSMSC(Location=1) on the handle
GetCachedSmsc(t) ==
    /\ ~exited
    /\ UNCHANGED request_vars
    /\ t = "rest"
    /\ pc[t] = "idle"
    /\ IF SmscCacheExpired
       THEN /\ in_flight' = in_flight \cup
                              {[thread |-> t, name |-> GetSMSC, direct |-> TRUE]}
            /\ pc' = [pc EXCEPT ![t] = "smsc"]
       ELSE /\ in_flight' = in_flight
            /\ pc' = [pc EXCEPT ![t] = "send"]
    /\ UNCHANGED <<store_vars, now, auto_restart_on_failure, auto_recovery, device_tracker,
                   publisher, gammu_lock, started_at, op, exited,
                   hard_offline_since>>

\* GetSMSC returned (number: it gave a number) or raised
CacheSmscDone(t, number) ==
    /\ ~exited
    /\ UNCHANGED request_vars
    /\ pc[t] = "smsc"
    /\ in_flight' = {c \in in_flight : ~(c.thread = t /\ c.direct)}
    /\ publisher' = IF number
                    THEN [publisher EXCEPT !.cached_smsc = TRUE,
                                           !.smsc_cache_time = now]
                    ELSE publisher
    /\ pc' = [pc EXCEPT ![t] = "send"]
    /\ UNCHANGED <<store_vars, now, auto_restart_on_failure, auto_recovery, device_tracker,
                   gammu_lock, started_at, op, exited, hard_offline_since>>

NextLink ==
    \/ Elapse
    \/ \E t \in Threads : Submit(t)
    \/ \E t \in Threads : FutureResult(t)
    \/ \E t \in Threads, reconnect_ok \in BOOLEAN : FutureTimeout(t, reconnect_ok)
    \/ \E t \in Threads : ExecutorShutdown(t)
    \/ \E t \in Threads, error_code \in ErrorCodes :
          \E r \in RecoveryResults(error_code) :
             FutureError(t, error_code, r.soft_ok, r.probe_ok, r.reconnect_ok)
    \/ \E t \in Threads : GetCachedSmsc(t)
    \/ \E t \in Threads, number \in BOOLEAN : CacheSmscDone(t, number)

SpecLink == Init /\ [][NextLink]_vars

(***************************************************************************)
(* The request front.  A sender receives a request, queues the message on  *)
(* the paths that do, calls track_gammu_operation("SendSMS", ...) and      *)
(* books the outcome; a success of any thread that finds the recovery      *)
(* timer running and the queue not empty starts process_pending_sms.  A    *)
(* request carries one recipient and a text of one part.                   *)
(***************************************************************************)
\* cap of the consecutive failure counters at a failure on the request front
FrontMaxFailures == 1
\* cap of the sent counter when a request is received
MaxSent == 1

\* the dedup cache after the entries older than the window are dropped
clean_dedup_cache(cache, t) ==
    [k \in DOMAIN cache |->
        IF cache[k].at # NoTime /\ t - cache[k].at < _sms_dedup_window
        THEN cache[k] ELSE NoEntry]

\* a request arrives.  SmsGet.get drops the old entries of the dedup cache
\* and answers 200 at once when the key is in it; the answer names the
\* request
Receive(t, path, number, text) ==
    /\ ~exited
    /\ pc[t] = "idle"
    /\ LET cleaned == clean_dedup_cache(sms_dedup_cache, now)
           duplicate == path = "get" /\ cleaned[dedup_key(number, text)] # NoEntry
       IN  /\ sms_dedup_cache' = IF path = "get" THEN cleaned ELSE sms_dedup_cache
           /\ request' = [request EXCEPT ![t] =
                             IF duplicate
                             THEN [NoRequest EXCEPT !.number = number,
                                                    !.text = text,
                                                    !.response = "duplicate"]
                             ELSE [path |-> path, number |-> number,
                                   text |-> text, received_at |-> now,
                                   response |-> "none"]]
           /\ pc' = [pc EXCEPT ![t] = IF duplicate THEN "idle"
                                      ELSE IF path \in QueueingPaths THEN "queue"
                                      ELSE "send"]
    /\ UNCHANGED <<store_vars, now, auto_restart_on_failure, auto_recovery, device_tracker,
                   publisher, gammu_lock, started_at, in_flight, op, exited,
                   hard_offline_since, sms_queue, queue_result, drain_pending,
                   sms_counter>>

\* post and get: get_cached_smsc() (number: GetSMSC gave a number), then
\* queue_sms_for_retry(number, text, smsc)
QueueForRetry(t, number) ==
    /\ ~exited
    /\ t \in Senders
    /\ pc[t] = "queue"
    /\ publisher' = IF SmscCacheExpired /\ number
                    THEN [publisher EXCEPT !.cached_smsc = TRUE,
                                           !.smsc_cache_time = now]
                    ELSE publisher
    /\ sms_queue' = add(sms_queue, request[t].number, request[t].text, now).queue
    /\ pc' = [pc EXCEPT ![t] = "send"]
    /\ UNCHANGED <<store_vars, now, auto_restart_on_failure, auto_recovery, device_tracker,
                   gammu_lock, started_at, in_flight, op, exited,
                   hard_offline_since, queue_result, front_vars>>

\* the send returned: post and get remove the message from the queue and
\* count it, get records the request in the dedup cache; the MQTT paths
\* count it
Sent(t) ==
    /\ ~exited
    /\ t \in Senders
    /\ pc[t] = "sent"
    /\ sms_queue' = IF request[t].path \in QueueingPaths
                    THEN remove(sms_queue, request[t].number, request[t].text).queue
                    ELSE sms_queue
    /\ sms_counter' = sms_counter + 1
    /\ sms_dedup_cache' =
          IF request[t].path = "get"
          THEN [sms_dedup_cache EXCEPT
                   ![dedup_key(request[t].number, request[t].text)] =
                       [at |-> request[t].received_at,
                        number |-> request[t].number,
                        text |-> request[t].text]]
          ELSE sms_dedup_cache
    /\ request' = [request EXCEPT ![t] = [NoRequest EXCEPT !.response = "sent"]]
    /\ pc' = [pc EXCEPT ![t] = "idle"]
    /\ UNCHANGED <<store_vars, now, auto_restart_on_failure, auto_recovery, device_tracker,
                   publisher, gammu_lock, started_at, in_flight, op, exited,
                   hard_offline_since, queue_result, drain_pending>>

\* the send raised for the last time: post answers 200 "queued for retry",
\* get answers 500, the MQTT paths publish an error status
Failed(t) ==
    /\ ~exited
    /\ t \in Senders
    /\ pc[t] = "failed"
    /\ request' = [request EXCEPT ![t] =
                      [NoRequest EXCEPT !.response =
                          IF request[t].path = "post" THEN "queued" ELSE "error"]]
    /\ pc' = [pc EXCEPT ![t] = "idle"]
    /\ UNCHANGED <<store_vars, now, auto_restart_on_failure, auto_recovery, device_tracker,
                   publisher, gammu_lock, started_at, in_flight, op, exited,
                   hard_offline_since, sms_queue, queue_result, drain_pending,
                   sms_counter, sms_dedup_cache>>

\* where process_pending_sms continues when rest is left of its snapshot
NextDrain(rest) == IF rest = <<>> THEN "idle" ELSE "send"

\* process_pending_sms starts: pending = self.sms_queue.get_pending()
DrainBegin ==
    /\ ~exited
    /\ pc["drain"] = "started"
    /\ LET r == get_pending(sms_queue, now)
       IN  /\ sms_queue' = r.queue
           /\ drain_pending' = r.returns
           /\ pc' = [pc EXCEPT !["drain"] = NextDrain(r.returns)]
    /\ UNCHANGED <<store_vars, now, auto_restart_on_failure, auto_recovery, device_tracker,
                   publisher, gammu_lock, started_at, in_flight, op, exited,
                   hard_offline_since, queue_result, request, sms_counter,
                   sms_dedup_cache>>

\* process_pending_sms, the send of msg returned: remove and count it
DrainSent ==
    /\ ~exited
    /\ pc["drain"] = "sent"
    /\ LET msg == Head(drain_pending)
       IN  sms_queue' = remove(sms_queue, msg.number, msg.text).queue
    /\ sms_counter' = sms_counter + 1
    /\ drain_pending' = Tail(drain_pending)
    /\ pc' = [pc EXCEPT !["drain"] = NextDrain(Tail(drain_pending))]
    /\ UNCHANGED <<store_vars, now, auto_restart_on_failure, auto_recovery, device_tracker,
                   publisher, gammu_lock, started_at, in_flight, op, exited,
                   hard_offline_since, queue_result, request, sms_dedup_cache>>

\* process_pending_sms, the send of msg raised: increment_attempts
DrainFailed ==
    /\ ~exited
    /\ pc["drain"] = "failed"
    /\ LET msg == Head(drain_pending)
       IN  sms_queue' = increment_attempts(sms_queue, msg.number, msg.text).queue
    /\ drain_pending' = Tail(drain_pending)
    /\ pc' = [pc EXCEPT !["drain"] = NextDrain(Tail(drain_pending))]
    /\ UNCHANGED <<store_vars, now, auto_restart_on_failure, auto_recovery, device_tracker,
                   publisher, gammu_lock, started_at, in_flight, op, exited,
                   hard_offline_since, queue_result, request, sms_counter,
                   sms_dedup_cache>>

\* the counters of the front are below their cap
FrontCap ==
    /\ device_tracker.consecutive_failures < FrontMaxFailures
    /\ publisher.consecutive_failures < FrontMaxFailures

\* the error codes of the front: a device error, another recoverable code
\* and a code that is not recoverable
FrontErrorCodes == {2, 14, 27}

\* the recipients and the texts of the requests of the front
FrontNumbers == {<<"1">>}
FrontTexts == {<<"3">>}

\* a call of track_gammu_operation by thread t of the front fails, with the
\* failure counters and the attempts of the entry below the cap
TrackFailure(t) ==
    /\ FrontCap
    /\ t = "drain" =>
          \A i \in 1..Len(sms_queue.pending) :
             sms_queue.pending[i].attempts < MaxAttempts
    /\ \/ \E reconnect_ok \in BOOLEAN : TrackTimeout(t, reconnect_ok)
       \/ \E error_code \in FrontErrorCodes :
             \E r \in RecoveryResults(error_code) :
                TrackError(t, error_code, r.soft_ok, r.probe_ok, r.reconnect_ok)

\* the reconnect threshold is above the cap of the front, so that
\* auto_recovery has no effect on it
InitFront == Init /\ auto_recovery

\* The send paths: a REST worker and the MQTT client thread receive
\* requests on the four paths and send
NextSend ==
    \/ /\ sms_counter < MaxSent
       /\ \E t \in {"rest", "mqtt"}, number \in FrontNumbers, text \in FrontTexts :
             \E path \in PathsOf(t) : Receive(t, path, number, text)
    \/ \E number \in BOOLEAN : QueueForRetry("rest", number)
    \/ \E t \in {"rest", "mqtt"} : TrackSuccess(t)
    \/ \E t \in {"rest", "mqtt"} : TrackFailure(t)
    \/ \E t \in {"rest", "mqtt"} : Sent(t)
    \/ \E t \in {"rest", "mqtt"} : Failed(t)

SpecSend == InitFront /\ [][NextSend]_vars

\* The retry queue in use: a REST worker queues and sends, the status poll
\* succeeds, and process_pending_sms runs when a success starts it
NextFront ==
    \/ /\ sms_counter < MaxSent
       /\ \E number \in FrontNumbers, text \in FrontTexts :
             \E path \in PathsOf("rest") : Receive("rest", path, number, text)
    \/ \E number \in BOOLEAN : QueueForRetry("rest", number)
    \/ \E t \in {"rest", "drain", "status"} : TrackSuccess(t)
    \/ \E t \in {"rest", "drain"} : TrackFailure(t)
    \/ Sent("rest")
    \/ Failed("rest")
    \/ DrainBegin
    \/ DrainSent
    \/ DrainFailed

SpecFront == InitFront /\ [][NextFront]_vars

(***************************************************************************)
(* Properties.                                                              *)
(***************************************************************************)
\* the kinds of step of the recovery specification
SuccessStep == \E t \in Pollers : TrackSuccess(t)

TimeoutStep ==
    \E t \in Pollers, reconnect_ok \in BOOLEAN : TrackTimeout(t, reconnect_ok)

ErrorStep(codes) ==
    \E t \in Pollers, error_code \in codes :
       \E r \in RecoveryResults(error_code) :
          TrackError(t, error_code, r.soft_ok, r.probe_ok, r.reconnect_ok)

\* the error codes whose handler reaches record_failure
OtherErrors == {c \in ErrorCodes : ~needs_reset_retry(c)}

\* the calls of track_gammu_operation that are on the link
ExecutorCommands == {c \in in_flight : ~c.direct}

\* Lemma (link): two invocations of track_gammu_operation never overlap: at
\* most one thread is between its submit and the end of its with-blocks, it
\* holds gammu_lock, and the only executor command on the link is its own.
ExecutorCallsExclusive ==
    /\ Cardinality({t \in Threads : pc[t] \in {"exec", "abandoned"}}) <= 1
    /\ \A t \in Threads : pc[t] \in {"exec", "abandoned"} => gammu_lock = t
    /\ \A c \in ExecutorCommands : gammu_lock = c.thread
    /\ Cardinality(ExecutorCommands) <= 1

\* C1: at most one modem command is in flight on the physical link at any
\* time.
OneCommandInFlight == Cardinality(in_flight) <= 1

\* C2: every modem command on the link was issued through the executor, by
\* the thread that holds gammu_lock; no command is a direct call on the
\* modem handle.
AllCommandsThroughExecutor ==
    \A c \in in_flight : ~c.direct /\ gammu_lock = c.thread

\* C3: every executor attempt is recorded in the tracker before its outcome
\* reaches the caller: a success stamps last_success_time with the current
\* time, and a timeout or an error of any kind (recoverable Gammu code or
\* not) adds one to the tracker's consecutive_failures.
EveryAttemptRecorded ==
    [][/\ SuccessStep => device_tracker'.last_success_time = now'
       /\ (TimeoutStep \/ ErrorStep(ErrorCodes)) =>
              device_tracker'.consecutive_failures =
                  device_tracker.consecutive_failures + 1]_vars

\* C4: in every reachable state the status is offline exactly when
\* initial_check_done is false, or no success was recorded, or
\* consecutive_failures >= 2, or hard_offline is set, or more than
\* offline_timeout passed since the last success, and online otherwise;
\* get_status and the status field of get_status_data agree.
StatusIsDerived ==
    LET dt == device_tracker
        offline == \/ ~dt.initial_check_done
                   \/ dt.last_success_time = NoTime
                   \/ dt.consecutive_failures >= 2
                   \/ dt.hard_offline
                   \/ now - dt.last_success_time > offline_timeout
    IN  /\ get_status(dt, now) = (IF offline THEN "offline" ELSE "online")
        /\ get_status_data(dt, now).status = get_status(dt, now)

\* C4 witness: the tracker is offline for no other reason than the age of
\* the last success
OfflineByAgeOnly ==
    /\ device_tracker.initial_check_done
    /\ device_tracker.last_success_time # NoTime
    /\ device_tracker.consecutive_failures < 2
    /\ ~device_tracker.hard_offline
    /\ now - device_tracker.last_success_time > offline_timeout
    /\ get_status(device_tracker, now) = "offline"

\* C5: every failure reported to the tracker adds exactly one to
\* consecutive_failures, and a timeout failure also sets hard_offline and
\* records the operation that timed out as hard_offline_operation, after
\* which the status is offline.
FailureCountsAndTimeoutIsHardOffline ==
    [][\A is_timeout \in BOOLEAN, operation_name \in OperationNames :
          RecordFailure(is_timeout, operation_name) =>
             /\ device_tracker'.consecutive_failures =
                    device_tracker.consecutive_failures + 1
             /\ is_timeout =>
                   /\ device_tracker'.hard_offline
                   /\ device_tracker'.hard_offline_operation = operation_name
                   /\ get_status(device_tracker', now') = "offline"
                   /\ get_status_data(device_tracker', now').status = "offline"]_vars

\* C5 witness: a timeout of retrieveAllSms was recorded as the first failure
\* after a success, so nothing but hard_offline makes the status offline
TimeoutRecorded ==
    /\ device_tracker.hard_offline
    /\ device_tracker.hard_offline_operation = retrieveAllSms
    /\ device_tracker.consecutive_failures = 1
    /\ device_tracker.initial_check_done
    /\ device_tracker.last_success_time = now
    /\ get_status(device_tracker, now) = "offline"

\* the operation names that contain 'sms' in some spelling, listed by hand
SmsClass == {SendSMS, retrieveAllSms}

\* C6: while hard_offline is true, a recorded success clears it if and only
\* if the operation is the one that caused hard-offline or its name contains
\* 'sms' in any case; any other success leaves hard_offline true and the
\* status offline, and a qualifying success leaves hard_offline false with
\* consecutive_failures = 0.
SuccessClearsHardOfflineIffQualifying ==
    [][\A operation_name \in OperationNames :
          (device_tracker.hard_offline /\ RecordSuccess(operation_name)) =>
             LET qualifying ==
                     \/ operation_name = device_tracker.hard_offline_operation
                     \/ operation_name \in SmsClass
             IN  /\ device_tracker'.hard_offline = ~qualifying
                 /\ ~qualifying =>
                       /\ get_status(device_tracker', now') = "offline"
                       /\ device_tracker'.hard_offline_operation =
                              device_tracker.hard_offline_operation
                 /\ qualifying =>
                       device_tracker'.consecutive_failures = 0]_vars

\* C6 witness: a success was recorded at the current time and the tracker is
\* still hard-offline because of another operation's timeout
ShadowedSuccess ==
    /\ device_tracker.hard_offline
    /\ device_tracker.hard_offline_operation = GetSignalQuality
    /\ device_tracker.last_success_time = now
    /\ device_tracker.consecutive_failures = 1

\* C7: once failure_start_time is set it keeps its value across every
\* failure and across every success that leaves hard_offline true.
TimerKeptWhileFailing ==
    [][\/ publisher.failure_start_time = NoTime
       \/ publisher'.failure_start_time = publisher.failure_start_time
       \/ ~(\/ TimeoutStep
            \/ ErrorStep(ErrorCodes)
            \/ (/\ device_tracker.hard_offline
                /\ device_tracker'.hard_offline
                /\ SuccessStep))]_vars

\* C7 witness: a success was recorded while hard-offline and the timer still
\* holds an earlier time
TimerSurvivedSuccess ==
    /\ device_tracker.hard_offline
    /\ device_tracker.last_success_time = now
    /\ publisher.failure_start_time # NoTime
    /\ publisher.failure_start_time < now
    /\ ~exited

\* the SMS monitor's soft Reset, issued from its except branch
MonitorResetStep == pc["monitor"] = "reset" /\ TrackSuccess("monitor")

\* C8: no recovery action changes failure_start_time from set to unset: not
\* the automatic reconnect nor the emergency reset ladder (inside the
\* failure handlers), nor the SMS monitor's soft Reset.
RecoveryKeepsTimer ==
    [][(/\ publisher.failure_start_time # NoTime
        /\ (TimeoutStep \/ ErrorStep(ErrorCodes) \/ MonitorResetStep))
       => publisher'.failure_start_time # NoTime]_vars

\* the steps that end in _check_restart_timeout()
TimerCheckStep ==
    \/ TimeoutStep
    \/ (device_tracker'.hard_offline /\ SuccessStep)
    \/ ErrorStep(OtherErrors)

\* C9: the timer check terminates the process if and only if
\* auto_restart_on_failure is enabled and now - failure_start_time is at
\* least hard_offline_restart_timeout when the tracker is hard-offline, and
\* at least restart_timeout otherwise.
RestartIffThresholdReached ==
    [][\/ exited' <=>
             /\ auto_restart_on_failure
             /\ publisher'.failure_start_time # NoTime
             /\ now' - publisher'.failure_start_time >=
                    (IF device_tracker'.hard_offline
                     THEN hard_offline_restart_timeout
                     ELSE restart_timeout)
       \/ ~TimerCheckStep]_vars

\* C9 witness: the process was terminated while not hard-offline, by the
\* check of a failure restart_timeout after the timer started
RestartedAtStandardThreshold ==
    /\ exited
    /\ ~device_tracker.hard_offline
    /\ publisher.failure_start_time # NoTime
    /\ now - publisher.failure_start_time = restart_timeout
    /\ device_tracker.consecutive_failures >= 2

\* C10 as stated: with restarts enabled, a success that leaves the tracker
\* hard-offline triggers the restart exactly when it completes at least
\* hard_offline_restart_timeout after the timeout that set hard_offline.
RestartMeasuredFromHardOffline ==
    [][(/\ auto_restart_on_failure
        /\ device_tracker.hard_offline
        /\ device_tracker'.hard_offline
        /\ SuccessStep)
       => /\ get_status(device_tracker', now') = "offline"
          /\ exited' <=>
                now' - hard_offline_since >= hard_offline_restart_timeout]_vars

\* C10 amended: with restarts enabled, a success that leaves the tracker
\* hard-offline leaves the status offline and triggers the restart exactly
\* when it completes at least hard_offline_restart_timeout after
\* failure_start_time, which is the time of the first failure since the
\* timer was last cleared and so never later than the timeout that set
\* hard_offline.
RestartMeasuredFromTimer ==
    [][(/\ auto_restart_on_failure
        /\ device_tracker.hard_offline
        /\ device_tracker'.hard_offline
        /\ SuccessStep)
       => /\ get_status(device_tracker', now') = "offline"
          /\ publisher'.failure_start_time # NoTime
          /\ publisher'.failure_start_time <= hard_offline_since
          /\ exited' <=>
                now' - publisher'.failure_start_time >=
                    hard_offline_restart_timeout]_vars

\* C10 witness: the timeout started the timer, and a success recorded
\* exactly hard_offline_restart_timeout later terminated the process
RestartedAfterHardOfflineTimeout ==
    /\ exited
    /\ device_tracker.hard_offline
    /\ hard_offline_since = publisher.failure_start_time
    /\ device_tracker.last_success_time = now
    /\ now - hard_offline_since = hard_offline_restart_timeout

\* the modem call of an executor attempt on the link raised one of codes
LinkErrorStep(codes) ==
    \E t \in Threads, error_code \in codes :
       \E r \in RecoveryResults(error_code) :
          FutureError(t, error_code, r.soft_ok, r.probe_ok, r.reconnect_ok)

\* C11: an error with Gammu code 2 or 11 terminates the process at once when
\* auto_restart_on_failure is enabled, whatever the restart timer says, and
\* does not terminate it when disabled; in both cases the handler runs no
\* soft reset and no reconnect: the SMSC cache, the reconnect stamp, the
\* failure counters and the timer keep their values.
DeviceErrorTerminatesAtOnce ==
    [][\/ exited
       \/ \A t \in Threads : pc[t] # "exec"
       \/ /\ exited' = auto_restart_on_failure
          /\ publisher' = publisher
          /\ device_tracker' = device_tracker
       \/ ~LinkErrorStep({2, 11})]_vars

\* C11 witness: a device error terminated the process while the restart
\* timer was not running and the SMSC cache was filled
TerminatedByDeviceError ==
    /\ exited
    /\ publisher.failure_start_time = NoTime
    /\ publisher.cached_smsc

(***************************************************************************)
(* The queue alone: its methods called in any order by any thread with any *)
(* recipient and text, the process restarted between calls, and observed   *)
(* until the first entries are older than the expiry.                      *)
(***************************************************************************)
\* the instants of the queue: an entry queued at one of the first two has
\* the age SMS_QUEUE_EXPIRY_SECONDS at one of the last two
QueueInstants ==
    {StartTime + d : d \in {0, OperationTimeout, SMS_QUEUE_EXPIRY_SECONDS,
                           SMS_QUEUE_EXPIRY_SECONDS + OperationTimeout}}

QueueTick == Advance(QueueInstants)

\* add(number, text), the write of its _save ending as outcome
AddWriting(outcome, number, text) ==
    /\ ~exited
    /\ Len(sms_queue.pending) < MaxQueue \/ is_pending(sms_queue.pending, number, text)
    /\ LET r == persist(outcome, sms_queue, add(sms_queue, number, text, now))
       IN  /\ sms_queue' = r.queue
           /\ queue_result' = [NoResult EXCEPT !.op = "add", !.number = number,
                                  !.text = text, !.ok = r.returns,
                                  !.before = sms_queue.pending]
    /\ UNCHANGED <<store_vars, now, auto_restart_on_failure, auto_recovery, device_tracker,
                   publisher, gammu_lock, started_at, in_flight, pc, op, exited,
                   hard_offline_since, front_vars>>

Add(number, text) == AddWriting("written", number, text)

\* remove(number, text), the write of its _save ending as outcome
RemoveWriting(outcome, number, text) ==
    /\ ~exited
    /\ LET r == persist(outcome, sms_queue, remove(sms_queue, number, text))
       IN  /\ sms_queue' = r.queue
           /\ queue_result' = [NoResult EXCEPT !.op = "remove", !.number = number,
                                  !.text = text, !.ok = r.returns,
                                  !.before = sms_queue.pending]
    /\ UNCHANGED <<store_vars, now, auto_restart_on_failure, auto_recovery, device_tracker,
                   publisher, gammu_lock, started_at, in_flight, pc, op, exited,
                   hard_offline_since, front_vars>>

Remove(number, text) == RemoveWriting("written", number, text)

\* increment_attempts(number, text), the write of its _save ending as
\* outcome
IncrementAttemptsWriting(outcome, number, text) ==
    /\ ~exited
    /\ \A i \in 1..Len(sms_queue.pending) :
          sms_queue.pending[i].attempts < MaxAttempts
    /\ LET r == persist(outcome, sms_queue,
                        increment_attempts(sms_queue, number, text))
       IN  /\ sms_queue' = r.queue
           /\ queue_result' = [NoResult EXCEPT !.op = "increment_attempts",
                                  !.number = number, !.text = text,
                                  !.attempts = r.returns,
                                  !.before = sms_queue.pending]
    /\ UNCHANGED <<store_vars, now, auto_restart_on_failure, auto_recovery, device_tracker,
                   publisher, gammu_lock, started_at, in_flight, pc, op, exited,
                   hard_offline_since, front_vars>>

IncrementAttempts(number, text) ==
    IncrementAttemptsWriting("written", number, text)

GetPending ==
    /\ ~exited
    /\ LET r == get_pending(sms_queue, now)
       IN  /\ sms_queue' = r.queue
           /\ queue_result' = [NoResult EXCEPT !.op = "get_pending",
                                  !.returned = r.returns,
                                  !.before = sms_queue.pending]
    /\ UNCHANGED <<store_vars, now, auto_restart_on_failure, auto_recovery, device_tracker,
                   publisher, gammu_lock, started_at, in_flight, pc, op, exited,
                   hard_offline_since, front_vars>>

\* the process is restarted between two calls: a new SMSQueue is constructed
\* from the file
Load ==
    /\ ~exited
    /\ sms_queue' = load(sms_queue.file, now)
    /\ queue_result' = [NoResult EXCEPT !.op = "load",
                           !.before = sms_queue.pending]
    /\ UNCHANGED <<store_vars, now, auto_restart_on_failure, auto_recovery, device_tracker,
                   publisher, gammu_lock, started_at, in_flight, pc, op, exited,
                   hard_offline_since, front_vars>>

NextQueue ==
    \/ QueueTick
    \/ \E number \in Numbers, text \in Texts : Add(number, text)
    \/ \E number \in Numbers, text \in Texts : Remove(number, text)
    \/ \E number \in Numbers, text \in Texts : IncrementAttempts(number, text)
    \/ GetPending
    \/ Load

\* the queue reads neither configuration option
InitQueue == Init /\ auto_restart_on_failure /\ auto_recovery

SpecQueue == InitQueue /\ [][NextQueue]_vars

\* no two entries of pending have the same number and text
NoDuplicate(pending) ==
    \A i, j \in 1..Len(pending) :
       i # j => ~matches(pending[i], pending[j].number, pending[j].text)

\* the step is the call add(number, text) recorded in queue_result'
AddStep ==
    /\ queue_result'.op = "add"
    /\ Add(queue_result'.number, queue_result'.text)

\* C12: after any interleaving of add, remove, increment_attempts and
\* get_pending the queue holds at most one entry per (number, text), in
\* memory and in the file; add of a pending pair returns false and leaves
\* the queue unchanged; add of an absent pair appends one entry with
\* attempts = 0, writes the file and returns true.
AtMostOneEntryPerMessage ==
    [][/\ NoDuplicate(sms_queue'.pending)
       /\ NoDuplicate(sms_queue'.file.pending)
       /\ AddStep =>
             IF is_pending(sms_queue.pending, queue_result'.number,
                           queue_result'.text)
             THEN ~queue_result'.ok /\ sms_queue' = sms_queue
             ELSE /\ queue_result'.ok
                  /\ sms_queue'.pending =
                        Append(sms_queue.pending,
                               [number |-> queue_result'.number,
                                text |-> queue_result'.text,
                                queued_at |-> now, attempts |-> 0])
                  /\ sms_queue'.file.exists
                  /\ sms_queue'.file.pending = sms_queue'.pending]_vars

\* C12 witness: add was refused for a pair that was pending behind another
\* entry, after an attempt had been counted
DuplicateAddRefused ==
    /\ queue_result.op = "add"
    /\ ~queue_result.ok
    /\ Len(sms_queue.pending) >= 2
    /\ matches(sms_queue.pending[2], queue_result.number, queue_result.text)
    /\ sms_queue.pending[2].attempts > 0

\* the step is the call get_pending() recorded in queue_result'
GetPendingStep == queue_result'.op = "get_pending" /\ GetPending

\* C13 as stated: get_pending drops an entry exactly when
\* now - queued_at > expiry: every entry whose age is at most the expiry is
\* returned, every older one is evicted from the pending list, and the
\* eviction is in the file when the snapshot is returned.
DroppedWhenOlderThanExpiry ==
    [][GetPendingStep =>
          /\ queue_result'.returned =
                SelectSeq(sms_queue.pending,
                          LAMBDA msg : now - msg.queued_at <= SMS_QUEUE_EXPIRY_SECONDS)
          /\ sms_queue'.pending = queue_result'.returned
          /\ Len(queue_result'.returned) < Len(sms_queue.pending) =>
                sms_queue'.file = save(queue_result'.returned)]_vars

\* the step is the call remove(number, text) recorded in queue_result'
RemoveStep ==
    /\ queue_result'.op = "remove"
    /\ Remove(queue_result'.number, queue_result'.text)

\* C14: add(r, t) on a queue that does not contain (r, t), followed by
\* remove(r, t), restores the pending list (and the file) that add found;
\* get_pending on an empty queue returns the empty list; remove of a pair
\* that is not pending returns false and changes nothing.
AddThenRemoveRestores ==
    [][/\ RemoveStep =>
             /\ (/\ queue_result.op = "add"
                 /\ queue_result.ok
                 /\ queue_result.number = queue_result'.number
                 /\ queue_result.text = queue_result'.text)
                => /\ queue_result'.ok
                   /\ sms_queue'.pending = queue_result.before
                   /\ sms_queue'.file = save(queue_result.before)
             /\ ~is_pending(sms_queue.pending, queue_result'.number,
                            queue_result'.text)
                => ~queue_result'.ok /\ sms_queue' = sms_queue
       /\ (GetPendingStep /\ sms_queue.pending = <<>>)
             => queue_result'.returned = <<>>]_vars

\* C14 witness: remove took out the entry behind another one and returned
\* true
RemovedBehindAnother ==
    /\ queue_result.op = "remove"
    /\ queue_result.ok
    /\ sms_queue.pending # <<>>
    /\ queue_result.before =
          Append(sms_queue.pending, queue_result.before[Len(queue_result.before)])
    /\ matches(queue_result.before[Len(queue_result.before)],
               queue_result.number, queue_result.text)

\* the step is a restart of the process between two queue calls
LoadStep == queue_result'.op = "load" /\ Load

\* C18 as stated: after every completed queue mutation the file holds the
\* in-memory pending list, and a queue reloaded after a restart between two
\* queue calls holds exactly the pending entries that have not expired, an
\* entry being expired when now - queued_at > expiry.
ReloadKeepsPending ==
    [][/\ sms_queue'.pending # sms_queue.pending =>
             sms_queue'.file = save(sms_queue'.pending)
       /\ LoadStep =>
             sms_queue'.pending =
                SelectSeq(sms_queue.pending,
                          LAMBDA msg : now - msg.queued_at <= SMS_QUEUE_EXPIRY_SECONDS)]_vars

\* C15 as stated: on every send path (REST POST, REST GET, MQTT send
\* command, MQTT send buttons) the message is in the persisted retry queue
\* from before its SendSMS is executed, so that a crash during the send
\* finds it in the file.
QueuedBeforeSend ==
    \A t \in Senders :
       pc[t] \in {"send", "retry"} =>
          is_pending(sms_queue.file.pending, request[t].number, request[t].text)

\* a SendSMS for (number, text) has returned and its caller has not booked
\* it yet
Confirmed(number, text) ==
    \/ \E t \in Senders :
          /\ pc[t] = "sent"
          /\ request[t].number = number
          /\ request[t].text = text
    \/ /\ pc["drain"] = "sent"
       /\ matches(Head(drain_pending), number, text)

\* C16: an entry leaves the retry queue only when a SendSMS for it has
\* succeeded or when it has expired, and a thread books a send as succeeded
\* only after its SendSMS returned; a failed drain attempt leaves its entry
\* queued with attempts one higher and nothing else changed; a successful
\* drain attempt removes its entry and adds exactly one to the sent counter.
UnconfirmedStaysQueued ==
    [][/\ \A i \in 1..Len(sms_queue.pending) :
             LET msg == sms_queue.pending[i]
             IN  \/ is_pending(sms_queue'.pending, msg.number, msg.text)
                 \/ Confirmed(msg.number, msg.text)
                 \/ now - msg.queued_at >= SMS_QUEUE_EXPIRY_SECONDS
       /\ \A t \in SendThreads :
             (pc'[t] = "sent" /\ pc[t] # "sent") =>
                /\ pc[t] \in {"send", "retry"}
                /\ device_tracker'.last_success_time = now'
       /\ (pc["drain"] = "failed" /\ DrainFailed) =>
             LET msg == Head(drain_pending)
             IN  /\ sms_counter' = sms_counter
                 /\ is_pending(sms_queue.pending, msg.number, msg.text) =>
                       LET i == first_match(sms_queue.pending, msg.number, msg.text)
                       IN  sms_queue'.pending =
                              [sms_queue.pending EXCEPT ![i].attempts = @ + 1]
       /\ (pc["drain"] = "sent" /\ DrainSent) =>
             LET msg == Head(drain_pending)
             IN  /\ sms_counter' = sms_counter + 1
                 /\ ~is_pending(sms_queue'.pending, msg.number, msg.text)
                 /\ \A i \in 1..Len(sms_queue.pending) :
                       \/ matches(sms_queue.pending[i], msg.number, msg.text)
                       \/ \E j \in 1..Len(sms_queue'.pending) :
                             sms_queue'.pending[j] = sms_queue.pending[i]]_vars

\* C16 witness: the POST handler answered that its message was queued, a
\* drain attempt failed and a later one sent the message
DrainedAfterFailedSend ==
    /\ request["rest"].response = "queued"
    /\ pc["drain"] = "sent"
    /\ Head(drain_pending).attempts > 0
    /\ is_pending(sms_queue.pending, Head(drain_pending).number,
                  Head(drain_pending).text)

\* a message is in the retry queue and no thread is handling it: the send
\* that queued it, or the last drain attempt for it, has failed
LeftQueued ==
    /\ sms_queue.pending # <<>>
    /\ \A t \in SendThreads : pc[t] = "idle"

\* C17 as stated: when a failed send has left its message in the retry
\* queue, the next successful modem operation starts a drain, for every
\* configuration of auto_restart_on_failure and every kind of failure.
DrainStartsOnFirstSuccess ==
    [][(LeftQueued /\ TrackSuccess("status") /\ ~exited')
       => pc'["drain"] = "started"]_vars

(***************************************************************************)
(* The GET endpoint alone: two Flask workers serve GET /sms/{number}&{text}*)
(* requests at the same time while the modem answers, observed until the   *)
(* entries of the first requests are older than the dedup window.  The     *)
(* failures of a GET send are part of SpecSend.                            *)
(***************************************************************************)
\* cap of the sent counter when a GET request is received
GetMaxSent == 2

\* the workers of the GET endpoint
GetWorkers == {"rest", "rest2"}

\* the requests of the GET endpoint, <<number, text>>: the ones that have
\* their dedup_key in common with another request
GetRequests ==
    {r \in Numbers \X Texts :
        \E q \in Numbers \X Texts :
           q # r /\ dedup_key(q[1], q[2]) = dedup_key(r[1], r[2])}

\* the instants of the GET endpoint: an entry written at one of the first
\* two is one second younger than the window, or as old as the window, at
\* a later one
GetInstants ==
    {StartTime + d : d \in {0, _sms_dedup_window - 1, _sms_dedup_window,
                           2 * _sms_dedup_window - 1}}

GetTick == Advance(GetInstants)

InitGet == InitFront /\ auto_restart_on_failure

NextGet ==
    \/ /\ sms_counter < GetMaxSent
       /\ \E t \in GetWorkers, r \in GetRequests : Receive(t, "get", r[1], r[2])
    \/ \E t \in GetWorkers, number \in BOOLEAN : QueueForRetry(t, number)
    \/ \E t \in GetWorkers : TrackSuccess(t)
    \/ \E t \in GetWorkers : Sent(t)
    \/ GetTick

SpecGet == InitGet /\ [][NextGet]_vars

\* worker t answers a GET request in this step as a duplicate
AnswersDuplicate(t) ==
    /\ pc[t] = "idle"
    /\ pc'[t] = "idle"
    /\ request'[t] # request[t]
    /\ request'[t].response = "duplicate"

\* worker t takes a GET request in this step as a new one
TakesAsNew(t) ==
    /\ pc[t] = "idle"
    /\ pc'[t] = "queue"
    /\ request'[t].path = "get"

\* the successful send of the request (number, text) was recorded less than
\* the dedup window before now
RecordedWithinWindow(number, text) ==
    \E k \in DOMAIN sms_dedup_cache :
       /\ sms_dedup_cache[k].at # NoTime
       /\ sms_dedup_cache[k].number = number
       /\ sms_dedup_cache[k].text = text
       /\ now - sms_dedup_cache[k].at < _sms_dedup_window

\* C19 as stated: a GET request for (recipient, text) is answered as a
\* duplicate if and only if an identical request, same recipient and same
\* text, was recorded less than the dedup window earlier; requests that
\* differ in recipient or in text are never duplicates of each other.
DuplicateIffIdenticalRecorded ==
    [][\A t \in GetWorkers :
          /\ AnswersDuplicate(t) =>
                RecordedWithinWindow(request'[t].number, request'[t].text)
          /\ TakesAsNew(t) =>
                ~RecordedWithinWindow(request'[t].number, request'[t].text)]_vars

\* C20 as stated: of two GET requests with the same recipient and text that
\* arrive within the dedup window of each other, at most one has its
\* SendSMS executed, however the two workers interleave.
DuplicateGetAbsorbed ==
    ~ /\ pc["rest"] = "sent"
      /\ pc["rest2"] = "sent"
      /\ request["rest"].number = request["rest2"].number
      /\ request["rest"].text = request["rest2"].text
      /\ request["rest"].received_at - request["rest2"].received_at
            < _sms_dedup_window
      /\ request["rest2"].received_at - request["rest"].received_at
            < _sms_dedup_window

(***************************************************************************)
(* The delivery tracker alone: the MQTT send path tracks the references    *)
(* SendSMS returns, the SMS monitor books the status reports it reads, the *)
(* clear button empties the collection, and the clock advances in seconds. *)
(***************************************************************************)
\* the seconds of the delivery tracker
DeliveryInstants == {StartTime + d : d \in 0 .. 2}

DeliveryTick == Advance(DeliveryInstants)

\* what the calls of the delivery tracker leave alone
delivery_frame ==
    <<now, auto_restart_on_failure, auto_recovery, device_tracker, publisher,
      gammu_lock, started_at, in_flight, pc, op, exited, hard_offline_since,
      request_vars, retained, mqtt_inbox, emergency, held, todo, handling>>

\* _send_sms_via_gammu: self.delivery_tracker.track_sent_sms(result, ...)
TrackSentSmsWriting(outcome, message_ref, number, text) ==
    /\ delivery_tracker' =
          track_sent_sms_with(outcome, delivery_tracker, message_ref, number,
                              text, now)
    /\ delivery_result' = [NoDeliveryResult EXCEPT !.op = "track",
                                                   !.ref = message_ref,
                                                   !.status = "sent"]
    /\ UNCHANGED delivery_frame

TrackSentSms(message_ref, number, text) ==
    TrackSentSmsWriting("written", message_ref, number, text)

\* the SMS monitor reads a status report: if message_ref:
\* self.delivery_tracker.update_delivery_status(message_ref, status)
UpdateDeliveryStatusWriting(outcome, message_ref, status) ==
    /\ message_ref # 0
    /\ LET r == update_delivery_status_with(outcome, delivery_tracker,
                                            message_ref, status, now)
           i == item_of(delivery_tracker.pending_deliveries, message_ref)
       IN  /\ delivery_tracker' = r.tracker
           /\ delivery_result' =
                 [op |-> "update", ref |-> message_ref, status |-> status,
                  was |-> IF i = 0 THEN "none"
                          ELSE delivery_tracker.pending_deliveries[i].status,
                  returned |-> r.returns]
    /\ UNCHANGED delivery_frame

UpdateDeliveryStatus(message_ref, status) ==
    UpdateDeliveryStatusWriting("written", message_ref, status)

\* the clear button: self.delivery_tracker.clear_pending_deliveries()
ClearPendingDeliveries ==
    /\ delivery_tracker' = clear_pending_deliveries(delivery_tracker)
    /\ delivery_result' = [NoDeliveryResult EXCEPT !.op = "clear"]
    /\ UNCHANGED delivery_frame

NextDelivery ==
    \/ \E message_ref \in MessageRefs, number \in FrontNumbers,
          text \in FrontTexts : TrackSentSms(message_ref, number, text)
    \/ \E message_ref \in MessageRefs, status \in DeliveryStatuses :
          UpdateDeliveryStatus(message_ref, status)
    \/ ClearPendingDeliveries
    \/ DeliveryTick

SpecDelivery == InitQueue /\ [][NextDelivery]_vars

\* a step of update_delivery_status
UpdateStep ==
    /\ delivery_result'.op = "update"
    /\ delivery_result' # delivery_result \/ delivery_tracker' # delivery_tracker

\* a step of track_sent_sms
TrackStep ==
    /\ delivery_result'.op = "track"
    /\ delivery_result' # delivery_result \/ delivery_tracker' # delivery_tracker

\* C24: update_delivery_status(ref, status) for a tracked reference returns
\* the record with the given status and a delivered timestamp, recipient,
\* text preview and sent timestamp as they were; for a reference that is
\* not tracked it returns None and changes nothing.
UpdateReturnsUpdatedRecord ==
    [][UpdateStep =>
          LET items == delivery_tracker.pending_deliveries
              i == item_of(items, delivery_result'.ref)
              returned == delivery_result'.returned
          IN  IF i # 0
              THEN /\ returned.ref = delivery_result'.ref
                   /\ returned.status = delivery_result'.status
                   /\ returned.delivered_timestamp # NoTime
                   /\ returned.number = items[i].number
                   /\ returned.text_preview = items[i].text_preview
                   /\ returned.sent_timestamp = items[i].sent_timestamp
              ELSE /\ returned = NoDelivery
                   /\ delivery_tracker' = delivery_tracker]_vars

\* a report was booked for a tracked reference, later than the send
DeliveredLater ==
    /\ delivery_result.op = "update"
    /\ delivery_result.returned.status = "Delivered"
    /\ delivery_result.returned.delivered_timestamp
          > delivery_result.returned.sent_timestamp

\* the records of before that are not among the items
evicted_items(before, items) ==
    {before[i] : i \in {j \in 1..Len(before) : item_of(items, before[j].ref) = 0}}

\* C25 as stated: after every track_sent_sms or update_delivery_status the
\* collection holds at most max_tracked records, no record kept was sent
\* earlier than a record evicted, and the record just tracked is kept.
KeepsMostRecentlySent ==
    [][(TrackStep \/ UpdateStep) =>
          LET items == delivery_tracker'.pending_deliveries
              evicted == evicted_items(delivery_tracker.pending_deliveries, items)
          IN  /\ Len(items) <= max_tracked
              /\ \A i \in 1..Len(items) : \A e \in evicted :
                    ~(items[i].sent_timestamp < e.sent_timestamp)
              /\ (TrackStep /\ delivery_result'.ref # 0) =>
                    item_of(items, delivery_result'.ref) # 0]_vars

\* the number of records whose status is 'sent'
SentRecords(items) == Len(SelectSeq(items, LAMBDA item : item.status = "sent"))

\* the items apart from status and delivered timestamp
Unreported(items) ==
    [i \in 1..Len(items) |->
        [items[i] EXCEPT !.status = "sent", !.delivered_timestamp = NoTime]]

\* C30: get_pending_count is the number of records with status 'sent'; the
\* first status report for a pending reference decreases it by one, and a
\* further report for the reference only overwrites status and delivered
\* timestamp: the count and the records are otherwise as they were.
ReportCountedOnce ==
    /\ [](get_pending_count(delivery_tracker)
             = SentRecords(delivery_tracker.pending_deliveries))
    /\ [][UpdateStep =>
             LET items == delivery_tracker.pending_deliveries
                 i == item_of(items, delivery_result'.ref)
             IN  i # 0 =>
                    /\ get_pending_count(delivery_tracker') =
                          get_pending_count(delivery_tracker)
                             - (IF items[i].status = "sent" THEN 1 ELSE 0)
                    /\ Unreported(delivery_tracker'.pending_deliveries)
                          = Unreported(items)]_vars

\* a second report for a reference was booked while another record is
\* still pending
ReportedTwice ==
    /\ delivery_result.op = "update"
    /\ delivery_result.was = "Delivered"
    /\ delivery_result.returned.status = "Failed"
    /\ get_pending_count(delivery_tracker) = 1
    /\ Len(delivery_tracker.pending_deliveries) = max_tracked

(***************************************************************************)
(* The durable queue topic <prefix>/queue_sms.  The broker keeps the last  *)
(* payload published with retain and delivers it to the subscriber on      *)
(* publish and on every subscribe; a retained publish of '' clears it and  *)
(* is delivered as an empty payload.  A payload is a sequence of tokens:   *)
(* " " is white space, "{" and "}" open and close a JSON object, "n" is    *)
(* the member "number": "1", "t" the member "text": "3", "e" the member    *)
(* "number": "", and "7" is a JSON number.                                 *)
(***************************************************************************)
\* cap of the payloads delivered and not handled
MaxInbox == 2

\* the payloads published to the topic
Payloads ==
    {<<" ">>, <<"{">>, <<"7">>, <<"{", "}">>, <<"{", "n", "}">>,
     <<"{", "t", "}">>, <<"{", "e", "t", "}">>, <<"{", "n", "t", "}">>}

\* payload.strip()
RECURSIVE lstrip(_)
lstrip(payload) ==
    IF payload # <<>> /\ Head(payload) = " " THEN lstrip(Tail(payload))
    ELSE payload
RECURSIVE rstrip(_)
rstrip(payload) ==
    IF payload # <<>> /\ payload[Len(payload)] = " "
    THEN rstrip(SubSeq(payload, 1, Len(payload) - 1))
    ELSE payload
strip(payload) == lstrip(rstrip(payload))

\* json.loads(payload): raises JSONDecodeError, or gives a value that is a
\* dict with the members read or another value
json_loads(payload) ==
    LET text == strip(payload)
    IN  IF text = <<"7">>
        THEN [raises |-> FALSE, is_dict |-> FALSE, members |-> {}]
        ELSE IF /\ Len(text) >= 2
                /\ text[1] = "{"
                /\ text[Len(text)] = "}"
                /\ \A i \in 2..(Len(text) - 1) : text[i] \in {"n", "t", "e"}
        THEN [raises |-> FALSE, is_dict |-> TRUE,
              members |-> {text[i] : i \in 2..(Len(text) - 1)}]
        ELSE [raises |-> TRUE, is_dict |-> FALSE, members |-> {}]

\* data.get('number') and data.get('text'): <<>> stands for None and ''
number_of(data) == IF "n" \in data.members THEN <<"1">> ELSE <<>>
text_of(data) == IF "t" \in data.members THEN <<"3">> ELSE <<>>

\* what _handle_queued_sms_from_mqtt does with a payload: whether it clears
\* the retained payload and whether it goes on to queue the message
handle_queued_sms(payload) ==
    LET data == json_loads(payload)
    IN  IF payload = <<>> \/ strip(payload) = <<>>
        THEN [clears |-> FALSE, queues |-> FALSE]
        ELSE IF data.raises
        THEN [clears |-> TRUE, queues |-> FALSE]
        ELSE IF ~data.is_dict
        THEN [clears |-> FALSE, queues |-> FALSE]
        ELSE IF number_of(data) = <<>> \/ text_of(data) = <<>>
        THEN [clears |-> TRUE, queues |-> FALSE]
        ELSE [clears |-> TRUE, queues |-> TRUE]

\* what the calls on the queue topic leave alone
retained_frame ==
    <<now, auto_restart_on_failure, auto_recovery, device_tracker, publisher,
      gammu_lock, started_at, in_flight, op, exited, hard_offline_since,
      queue_result, front_vars, delivery_tracker, delivery_result,
      emergency, held, todo, handling>>

\* a client publishes a payload to the topic with retain
PublishQueuedSms(payload) ==
    /\ ~exited
    /\ Len(mqtt_inbox) < MaxInbox
    /\ retained' = payload
    /\ mqtt_inbox' = Append(mqtt_inbox, payload)
    /\ UNCHANGED <<retained_frame, pc, sms_queue>>

\* _on_connect subscribes to the topic: the broker delivers the retained
\* payload
Subscribe ==
    /\ ~exited
    /\ Len(mqtt_inbox) < MaxInbox
    /\ retained # <<>>
    /\ mqtt_inbox' = Append(mqtt_inbox, retained)
    /\ UNCHANGED <<retained_frame, pc, sms_queue, retained>>

\* _on_message on the queue topic: _handle_queued_sms_from_mqtt(payload,
\* topic), on the MQTT client thread, which runs process_pending_sms itself
\* when the modem is ready
HandleQueuedSmsFromMqtt(ready) ==
    /\ ~exited
    /\ mqtt_inbox # <<>>
    /\ pc["drain"] = "idle"
    /\ LET payload == Head(mqtt_inbox)
           h == handle_queued_sms(payload)
           data == json_loads(payload)
       IN  /\ retained' = IF h.clears THEN <<>> ELSE retained
           /\ mqtt_inbox' = IF h.clears THEN Append(Tail(mqtt_inbox), <<>>)
                            ELSE Tail(mqtt_inbox)
           /\ sms_queue' = IF h.queues
                           THEN add(sms_queue, number_of(data), text_of(data),
                                    now).queue
                           ELSE sms_queue
           /\ pc' = [pc EXCEPT !["drain"] =
                        IF h.queues /\ ready THEN "started" ELSE @]
    /\ UNCHANGED retained_frame

NextRetained ==
    \/ /\ sms_counter < MaxSent
       /\ \E payload \in Payloads : PublishQueuedSms(payload)
    \/ Subscribe
    \/ \E ready \in BOOLEAN : HandleQueuedSmsFromMqtt(ready)
    \/ DrainBegin
    \/ TrackSuccess("drain")
    \/ TrackFailure("drain")
    \/ DrainSent
    \/ DrainFailed

SpecRetained == InitQueue /\ [][NextRetained]_vars

\* a step of _handle_queued_sms_from_mqtt on the first payload delivered
HandleStep ==
    /\ mqtt_inbox # <<>>
    /\ mqtt_inbox' # mqtt_inbox
    /\ \/ mqtt_inbox' = Tail(mqtt_inbox)
       \/ mqtt_inbox' = Append(Tail(mqtt_inbox), <<>>)

\* the handler published the clear of the retained payload in this step
ClearPublished ==
    /\ retained' = <<>>
    /\ mqtt_inbox' = Append(Tail(mqtt_inbox), <<>>)

\* the payload is a JSON object with a number and a text
WellFormed(payload) ==
    /\ ~json_loads(payload).raises
    /\ json_loads(payload).is_dict
    /\ {"n", "t"} \subseteq json_loads(payload).members

\* C21 as stated: the handler clears the retained payload for every payload
\* that is not empty (here: that is more than white space), changes the
\* retry queue only for a well-formed payload, and for an empty payload
\* changes nothing and clears nothing.
ConsumedPayloadCleared ==
    [][HandleStep =>
          /\ strip(Head(mqtt_inbox)) # <<>> => ClearPublished
          /\ ~WellFormed(Head(mqtt_inbox)) => sms_queue' = sms_queue
          /\ Head(mqtt_inbox) = <<>> =>
                /\ retained' = retained
                /\ mqtt_inbox' = Tail(mqtt_inbox)
                /\ sms_queue' = sms_queue]_vars

\* sender t answers in this step a request whose send failed
FailedStep(t) ==
    /\ pc[t] = "failed"
    /\ pc'[t] = "idle"

\* C22 as stated: on REST POST and REST GET, when the send was not
\* confirmed and the message is in the retry queue, the caller is answered
\* 'queued for retry' and not with a failure.
QueuedIsAcknowledged ==
    [][\A t \in Senders :
          (/\ FailedStep(t)
           /\ request[t].path \in {"post", "get"}
           /\ is_pending(sms_queue.pending, request[t].number, request[t].text))
             => request'[t].response = "queued"]_vars

(***************************************************************************)
(* The link with a modem call that may never return.  The threads, the     *)
(* clock and the timeout of future.result take their steps; the return of  *)
(* a call that was abandoned, on which the end of the executor's           *)
(* with-block waits (shutdown(wait=True)), is left to the modem.           *)
(***************************************************************************)
\* the steps of the link other than the return of an abandoned call
NextLinkRunning ==
    \/ Elapse
    \/ \E t \in Threads : Submit(t)
    \/ \E t \in Threads : FutureResult(t)
    \/ \E t \in Threads, reconnect_ok \in BOOLEAN : FutureTimeout(t, reconnect_ok)
    \/ \E t \in Threads, error_code \in ErrorCodes :
          \E r \in RecoveryResults(error_code) :
             FutureError(t, error_code, r.soft_ok, r.probe_ok, r.reconnect_ok)
    \/ \E t \in Threads : GetCachedSmsc(t)
    \/ \E t \in Threads, number \in BOOLEAN : CacheSmscDone(t, number)

SpecLinkHung == Init /\ [][NextLink]_vars /\ WF_vars(NextLinkRunning)

\* C23 as stated: once the timeout of a modem call is declared, the call of
\* track_gammu_operation ends and the link lock is released whether or not
\* the abandoned modem call ever returns.
TimeoutReleasesLock ==
    \A t \in Threads :
       (pc[t] = "abandoned" /\ ~exited) ~> (gammu_lock # t \/ exited)

(***************************************************************************)
(* The recovery timer and the restart policy over the three kinds of       *)
(* failed attempt.                                                         *)
(***************************************************************************)
\* an attempt of track_gammu_operation fails in this step
FailureStep == TimeoutStep \/ ErrorStep(ErrorCodes)

\* C26 as stated: after any failed executor attempt (timeout, error with a
\* recoverable code, other error) failure_start_time is set, for every
\* configuration of auto_restart_on_failure and auto_recovery, and it is
\* cleared only by a success that leaves the tracker not hard-offline.
TimerSetByEveryFailure ==
    [][/\ (publisher'.failure_start_time = NoTime /\ ~exited') => ~FailureStep
       /\ (/\ publisher.failure_start_time # NoTime
           /\ publisher'.failure_start_time = NoTime)
             => (SuccessStep /\ ~device_tracker'.hard_offline)]_vars

\* the threshold the restart policy applies once the tracker is dt
effective_threshold(dt) ==
    IF dt.hard_offline THEN hard_offline_restart_timeout ELSE restart_timeout

\* the recovery timer is running and has reached, at the time of the next
\* state, the threshold of the tracker of the next state
ThresholdReached ==
    /\ publisher.failure_start_time # NoTime
    /\ now' - publisher.failure_start_time >=
           effective_threshold(device_tracker')

\* C27 as stated: after every failed attempt of whatever kind, if
\* auto_restart_on_failure is enabled and the failure duration has reached
\* the effective threshold (hard_offline_restart_timeout while
\* hard-offline, restart_timeout otherwise), the process terminates while
\* handling that failure.
RestartAppliedAfterEveryFailure ==
    [][(auto_restart_on_failure /\ ~exited' /\ ThresholdReached)
          => ~FailureStep]_vars

(***************************************************************************)
(* The automatic reconnect, seen from one caller: the status poller, whose *)
(* attempts succeed, time out or raise.                                    *)
(***************************************************************************)
\* the failures one caller sees in a row: one more than the reconnect
\* threshold, so that a failure follows the first attempt
ReconnectMaxFailures == 6

NextReconnect ==
    \/ Tick
    \/ TrackSuccessUnder(ReconnectMaxFailures, "status")
    \/ \E reconnect_ok \in BOOLEAN :
          TrackTimeoutUnder(ReconnectMaxFailures, "status", reconnect_ok)
    \/ \E error_code \in ErrorCodes :
          \E r \in RecoveryResults(error_code) :
             TrackErrorUnder(ReconnectMaxFailures, "status", error_code,
                             r.soft_ok, r.probe_ok, r.reconnect_ok)

SpecReconnect == Init /\ [][NextReconnect]_vars

\* _attempt_reconnect_if_needed reaches _reconnect_gammu in this step: it
\* stamps last_reconnect_attempt with the current time
ReconnectAttempted ==
    publisher'.last_reconnect_attempt # publisher.last_reconnect_attempt

\* the failure handled in this step is a timeout or an error, and
\* _reconnect_gammu returns True
FailsAndReconnects ==
    \/ TrackTimeoutUnder(ReconnectMaxFailures, "status", TRUE)
    \/ \E error_code \in OtherErrors :
          TrackErrorUnder(ReconnectMaxFailures, "status", error_code,
                          FALSE, FALSE, TRUE)

\* an automatic reconnect is attempted only under the three conditions,
\* the counter being the one that counts the failure just handled
ReconnectOnlyWhenDue(failures) ==
    ReconnectAttempted =>
       /\ auto_recovery
       /\ failures >= reconnect_threshold
       /\ now' - publisher.last_reconnect_attempt >= reconnect_cooldown

\* a successful reconnect keeps the timer and hard_offline: the timer is
\* what the timer check leaves, never cleared, and hard_offline is what
\* the recorded failure left
ReconnectKeepsTimerAndHardOffline ==
    /\ publisher.failure_start_time # NoTime =>
          publisher'.failure_start_time = publisher.failure_start_time
    /\ publisher.failure_start_time = NoTime =>
          publisher'.failure_start_time \in {NoTime, now'}
    /\ device_tracker'.hard_offline =
          (device_tracker.hard_offline \/ now' # now)

\* C28 as stated: a successful automatic reconnect resets
\* consecutive_failures of the connectivity state (the tracker's counter,
\* from which the status is derived) to 0 and leaves the recovery timer
\* and hard_offline unchanged; a reconnect is attempted only if
\* auto_recovery is enabled, consecutive_failures >= 5 and 60 s have passed
\* since the previous attempt.
ReconnectResetsTrackerFailures ==
    [][/\ ReconnectOnlyWhenDue(device_tracker'.consecutive_failures)
       /\ (ReconnectAttempted /\ ~exited' /\ FailsAndReconnects) =>
             /\ device_tracker'.consecutive_failures = 0
             /\ ReconnectKeepsTimerAndHardOffline]_vars

\* C28, amended: a successful automatic reconnect resets the publisher's
\* own consecutive_failures, the counter that gates the reconnect, to 0
\* and leaves the tracker's consecutive_failures (which only a recorded
\* success resets), the recovery timer and hard_offline as the failure
\* left them; a reconnect is attempted only if auto_recovery is enabled,
\* the publisher's consecutive_failures >= 5 and 60 s have passed since the
\* previous attempt.
ReconnectResetsPublisherFailures ==
    [][/\ ReconnectOnlyWhenDue(publisher.consecutive_failures + 1)
       /\ (ReconnectAttempted /\ ~exited' /\ FailsAndReconnects) =>
             /\ publisher'.consecutive_failures = 0
             /\ device_tracker'.consecutive_failures =
                    device_tracker.consecutive_failures + 1
             /\ ReconnectKeepsTimerAndHardOffline]_vars

\* C28 witness: a reconnect has just succeeded while the timer runs: the
\* publisher's counter is 0 and the tracker still counts the failures
ReconnectedWhileFailing ==
    /\ ~exited
    /\ publisher.last_reconnect_attempt = now
    /\ publisher.consecutive_failures = 0
    /\ device_tracker.consecutive_failures >= reconnect_threshold
    /\ publisher.failure_start_time # NoTime

(***************************************************************************)
(* _trigger_emergency_reset step by step.  The thread whose modem call     *)
(* raised a recoverable code is inside both with-blocks of                 *)
(* track_gammu_operation and holds gammu_lock from the error to the raise. *)
(* Its positions are                                                       *)
(*   "soft_reset"  before gammu_machine.Reset(False)                       *)
(*   "wait"        before time.sleep(10)                                   *)
(*   "probe"       before gammu_machine.GetManufacturer()                  *)
(*   "reconnect"   before _reconnect_gammu()                               *)
(*   "settle"      before time.sleep(5)                                    *)
(*   "raise"       _trigger_emergency_reset returned, before the raise     *)
(***************************************************************************)
\* time.sleep(10) after the soft reset and time.sleep(5) after the reconnect
soft_reset_wait == 10
reconnect_wait == 5

EmergencyPositions ==
    {"soft_reset", "wait", "probe", "reconnect", "settle", "raise"}

\* faulty variant of next_position: the reconnect follows the probe
\* whatever the probe found
next_position_always_reconnect(position, ok) ==
    IF position = "soft_reset" THEN (IF ok THEN "wait" ELSE "reconnect")
    ELSE IF position = "wait" THEN "probe"
    ELSE IF position = "probe" THEN "reconnect"
    ELSE IF position = "reconnect" THEN (IF ok THEN "settle" ELSE "raise")
    ELSE "raise"

\* where the thread continues after the call at position returned (ok) or
\* raised, or returned False
next_position(position, ok) ==
    IF position = "soft_reset" THEN (IF ok THEN "wait" ELSE "reconnect")
    ELSE IF position = "wait" THEN "probe"
    ELSE IF position = "probe" THEN (IF ok THEN "raise" ELSE "reconnect")
    ELSE IF position = "reconnect" THEN (IF ok THEN "settle" ELSE "raise")
    ELSE "raise"

\* the call made at a position
call_at(position) ==
    IF position = "soft_reset" THEN "Reset"
    ELSE IF position = "probe" THEN "GetManufacturer"
    ELSE IF position = "reconnect" THEN "_reconnect_gammu"
    ELSE "sleep"

\* the value _trigger_emergency_reset returns when the call at position
\* ended with ok, "none" while it goes on
returned_after(position, ok) ==
    IF position = "probe" /\ ok THEN "True"
    ELSE IF position = "reconnect" /\ ~ok THEN "False"
    ELSE IF position = "settle" THEN "True"
    ELSE "none"

emergency_frame ==
    <<auto_restart_on_failure, auto_recovery, device_tracker, started_at,
      in_flight, hard_offline_since, request_vars, retained, mqtt_inbox,
      delivery_tracker, delivery_result, held, todo, handling>>

\* the modem call of thread t raises an error with a recoverable code: the
\* except branch calls _trigger_emergency_reset, which exits, returns False
\* for a device error, or starts the timer, clears the SMSC cache and goes
\* on to the soft reset
EmergencyBegin(t, error_code) ==
    /\ CanEnter(t, MaxFailures)
    /\ needs_reset_retry(error_code)
    /\ UNCHANGED <<emergency_frame, now>>
    /\ LET s == trigger_emergency_reset(Handler, now, error_code,
                                        FALSE, FALSE, FALSE)
           device == error_code \in DEVICE_ERROR_CODES
       IN  /\ publisher' = s.pub
           /\ exited' = s.exited
           /\ gammu_lock' = t
           /\ op' = [op EXCEPT ![t] = NextOperation(t)]
           /\ pc' = [pc EXCEPT ![t] = IF s.exited THEN @
                                      ELSE IF device THEN "raise"
                                      ELSE "soft_reset"]
           /\ emergency' = [NoEmergency EXCEPT
                               !.thread = t,
                               !.code = error_code,
                               !.returned = IF device /\ ~s.exited
                                            THEN "False" ELSE "none"]

\* one call of the ladder: Reset(False), GetManufacturer() or
\* _reconnect_gammu(), which returns (ok) or fails
EmergencyCall(t, ok) ==
    /\ ~exited
    /\ pc[t] \in {"soft_reset", "probe", "reconnect"}
    /\ UNCHANGED <<emergency_frame, now, publisher, gammu_lock, op, exited>>
    /\ pc' = [pc EXCEPT ![t] = next_position(pc[t], ok)]
    /\ emergency' = [emergency EXCEPT
                        !.steps = Append(@, [call |-> call_at(pc[t]),
                                             ok |-> ok]),
                        !.returned = returned_after(pc[t], ok)]

\* time.sleep(10) and time.sleep(5)
EmergencySleep(t) ==
    /\ ~exited
    /\ pc[t] \in {"wait", "settle"}
    /\ UNCHANGED <<emergency_frame, publisher, gammu_lock, op, exited>>
    /\ now' = now + (IF pc[t] = "wait" THEN soft_reset_wait
                     ELSE reconnect_wait)
    /\ pc' = [pc EXCEPT ![t] = next_position(pc[t], TRUE)]
    /\ emergency' = [emergency EXCEPT
                        !.steps = Append(@, [call |-> "sleep", ok |-> TRUE]),
                        !.returned = returned_after(pc[t], TRUE)]

\* e.err_recoverable_detected = True; raise: the with-blocks end and the
\* caller receives the exception
EmergencyRaise(t) ==
    /\ ~exited
    /\ pc[t] = "raise"
    /\ UNCHANGED <<emergency_frame, now, publisher, op, exited>>
    /\ gammu_lock' = NoThread
    /\ pc' = [pc EXCEPT ![t] = AfterRaise(t, op[t], device_tracker)]
    /\ emergency' = [emergency EXCEPT !.raised = emergency.code,
                                      !.err_recoverable_detected = TRUE]

\* the pollers' calls succeed or raise a recoverable code; no call starts
\* once one restart_timeout has passed since the start
NextEmergency ==
    \/ Tick
    \/ \E t \in Pollers : TrackSuccess(t)
    \/ \E t \in Pollers, error_code \in ErrorCodes :
          /\ now < StartTime + restart_timeout
          /\ EmergencyBegin(t, error_code)
    \/ \E t \in Pollers, ok \in BOOLEAN : EmergencyCall(t, ok)
    \/ \E t \in Pollers : EmergencySleep(t)
    \/ \E t \in Pollers : EmergencyRaise(t)

SpecEmergency == Init /\ [][NextEmergency]_vars

\* the calls of the emergency reset in progress or last made, in order
EmergencyCalls ==
    [i \in 1 .. Len(emergency.steps) |-> emergency.steps[i].call]

\* call was made and returned
Made(call, ok) ==
    \E i \in 1 .. Len(emergency.steps) :
       emergency.steps[i] = [call |-> call, ok |-> ok]

\* the ladder of the emergency reset ran to its end
LadderDone ==
    /\ emergency.code \notin DEVICE_ERROR_CODES
    /\ emergency.returned # "none"

\* C29: on an error with a recoverable code other than 2 and 11 (and
\* unless the restart policy ends the process first) the emergency
\* sequence runs in the order soft reset, wait, probe; the full reconnect
\* is attempted if and only if the soft reset raised or its probe failed;
\* each step is attempted at most once per failure; and the original
\* error is raised to the caller afterwards whatever the recovery result.
EmergencySequenceInOrder ==
    LET calls == EmergencyCalls
        index == 1 .. Len(calls)
        caller == emergency.thread
    IN  /\ \A i, j \in index :
              (calls[i] = calls[j] /\ calls[i] # "sleep") => i = j
        /\ \A i \in index :
              /\ calls[i] = "Reset" => i = 1
              /\ calls[i] = "GetManufacturer" =>
                    i = 3 /\ calls[1] = "Reset" /\ calls[2] = "sleep"
              /\ calls[i] = "_reconnect_gammu" =>
                    /\ i > 1
                    /\ calls[1] = "Reset"
                    /\ \A j \in index : calls[j] = "GetManufacturer" => j < i
              /\ calls[i] = "sleep" =>
                    i > 1 /\ calls[i - 1] \in {"Reset", "_reconnect_gammu"}
        /\ LadderDone =>
              /\ Made("Reset", TRUE) \/ Made("Reset", FALSE)
              /\ Made("Reset", TRUE) =>
                    Made("GetManufacturer", TRUE)
                       \/ Made("GetManufacturer", FALSE)
              /\ (Made("_reconnect_gammu", TRUE)
                     \/ Made("_reconnect_gammu", FALSE))
                    <=> (Made("Reset", FALSE) \/ Made("GetManufacturer", FALSE))
        /\ (caller # NoThread /\ ~exited /\ pc[caller] \notin EmergencyPositions)
              => /\ emergency.returned # "none"
                 /\ emergency.raised = emergency.code
                 /\ emergency.err_recoverable_detected
        /\ emergency.raised # NoCode =>
              /\ emergency.raised = emergency.code
              /\ emergency.returned # "none"

\* C29 witness: the soft reset returned, its probe failed, the reconnect
\* failed too, and the caller received the original error
RaisedAfterFailedLadder ==
    /\ emergency.code \in RECOVERABLE_ERROR_CODES \ DEVICE_ERROR_CODES
    /\ emergency.steps = <<[call |-> "Reset", ok |-> TRUE],
                           [call |-> "sleep", ok |-> TRUE],
                           [call |-> "GetManufacturer", ok |-> FALSE],
                           [call |-> "_reconnect_gammu", ok |-> FALSE]>>
    /\ emergency.returned = "False"
    /\ emergency.raised = emergency.code
    /\ pc[emergency.thread] \notin EmergencyPositions

(***************************************************************************)
(* The failure counters across a success that leaves the tracker           *)
(* hard-offline.                                                           *)
(***************************************************************************)
\* a call succeeds in this step and the tracker stays hard-offline
ShadowedSuccessStep ==
    /\ device_tracker.hard_offline
    /\ device_tracker'.hard_offline
    /\ SuccessStep

\* C39 as stated: a success that does not clear hard_offline resets no
\* failure counter: the tracker's consecutive_failures and the publisher's
\* consecutive_failures, which gates the automatic reconnect, both keep
\* their values.
ShadowedSuccessKeepsCounters ==
    [][ShadowedSuccessStep =>
          /\ device_tracker'.consecutive_failures =
                 device_tracker.consecutive_failures
          /\ publisher'.consecutive_failures =
                 publisher.consecutive_failures]_vars

(***************************************************************************)
(* The restart countdown of a hard-offline modem, on the link.             *)
(***************************************************************************)
\* C38: with auto_restart_on_failure enabled, in every state in which the
\* link lock is free, hard_offline implies that failure_start_time is set:
\* a hard-offline modem always has a running restart countdown.
HardOfflineHasCountdown ==
    (/\ auto_restart_on_failure
     /\ gammu_lock = NoThread
     /\ device_tracker.hard_offline)
       => publisher.failure_start_time # NoTime

\* C38 witness: an operation timed out, its call has left the link and the
\* lock, and the process runs on hard-offline with the countdown started
HardOfflineCountingDown ==
    /\ auto_restart_on_failure
    /\ ~exited
    /\ gammu_lock = NoThread
    /\ device_tracker.hard_offline
    /\ publisher.failure_start_time # NoTime
    /\ publisher.failure_start_time <= now

(***************************************************************************)
(* The link of one caller, the status poller, whose failures reach the     *)
(* reconnect threshold: the timeout handler then runs _reconnect_gammu     *)
(* (init_state_machine on the device and GetManufacturer on the new        *)
(* handle) on the caller's thread, inside the executor's with-block.       *)
(***************************************************************************)
\* the failures the caller sees in a row: the reconnect threshold
AbandonedMaxFailures == 5

NextAbandoned ==
    \/ Elapse
    \/ SubmitUnder(AbandonedMaxFailures, "status")
    \/ FutureResult("status")
    \/ \E reconnect_ok \in BOOLEAN : FutureTimeout("status", reconnect_ok)
    \/ ExecutorShutdown("status")
    \/ \E error_code \in ErrorCodes :
          \E r \in RecoveryResults(error_code) :
             FutureError("status", error_code,
                         r.soft_ok, r.probe_ok, r.reconnect_ok)

SpecAbandoned == Init /\ [][NextAbandoned]_vars

\* after this step a timed-out call is still executing on its worker
CallAbandoned == \E t \in Threads : pc'[t] = "abandoned"

\* C37 as stated: while a timed-out modem call is still executing on its
\* worker thread no other command is started on the link: neither an
\* operation of another thread nor the automatic reconnect's re-open of
\* the device and its GetManufacturer probe begins before the abandoned
\* call has finished.
NothingStartsBesideAbandoned ==
    [][CallAbandoned =>
          /\ in_flight' \subseteq in_flight
          /\ ~ReconnectAttempted]_vars

(***************************************************************************)
(* The locks.  gammu_lock of MQTTPublisher is the link lock; the tracker,  *)
(* the queue, the delivery tracker and the counter each have their own     *)
(* threading.Lock, taken by 'with self._lock' for the body of every        *)
(* public method.  A thread's handler is the sequence of lock operations   *)
(* it performs; threading.Lock is not reentrant, so an acquire waits       *)
(* while any thread, the caller included, holds the lock.                  *)
(***************************************************************************)
LinkLock == "link"
ComponentLocks == {"tracker", "queue", "delivery", "counter"}

acquire(lock) == [do |-> "acquire", lock |-> lock]
release(lock) == [do |-> "release", lock |-> lock]

\* a public method of a component: with self._lock: ...
locked(lock) == <<acquire(lock), release(lock)>>

\* faulty variant of on_success_locks: the queue is counted while the
\* tracker's lock is held
on_success_locks_nested(was_failing) ==
    IF was_failing
    THEN <<acquire("tracker"), acquire("queue"), release("queue"),
           release("tracker")>> \o locked("tracker")
    ELSE locked("tracker") \o locked("tracker")

\* faulty variant of on_success_locks: the pending SMS are sent by the
\* thread that found the modem recovered, inside its own call
on_success_locks_inline_drain(was_failing) ==
    locked("tracker") \o locked("tracker") \o
    (IF was_failing
     THEN locked("queue") \o locked("queue") \o locked(LinkLock)
     ELSE <<>>)

\* the success branch: record_success, publish_device_status ->
\* get_status_data, and sms_queue.get_count() when the timer was running
on_success_locks(was_failing) ==
    locked("tracker") \o locked("tracker") \o
    (IF was_failing THEN locked("queue") ELSE <<>>)

\* the timeout branch and the branch of the other errors: record_failure,
\* publish_device_status -> get_status_data
on_failure_locks == locked("tracker") \o locked("tracker")

Outcomes == {"ok", "recovered", "failed", "recoverable"}

\* track_gammu_operation: with self.gammu_lock: ... and the branch of the
\* outcome; the emergency reset of a recoverable code takes no lock
track_locks(outcome) ==
    <<acquire(LinkLock)>> \o
    (IF outcome = "ok" THEN on_success_locks(FALSE)
     ELSE IF outcome = "recovered" THEN on_success_locks(TRUE)
     ELSE IF outcome = "failed" THEN on_failure_locks
     ELSE <<>>) \o
    <<release(LinkLock)>>

Succeeded(outcome) == outcome \in {"ok", "recovered"}

\* the handlers of the threads as lock operations, for one outcome of each
\* call of track_gammu_operation
\* SmsCollection.post: queue_sms_for_retry, SendSMS, remove, increment
post_locks(sent) ==
    locked("queue") \o track_locks(sent) \o
    (IF Succeeded(sent) THEN locked("queue") \o locked("counter") ELSE <<>>)

\* _send_sms_via_gammu: SendSMS, track_sent_sms, increment
command_locks(sent) ==
    track_locks(sent) \o
    (IF Succeeded(sent) THEN locked("delivery") \o locked("counter")
     ELSE <<>>)

\* _sms_monitor_loop: retrieveAllSms, then update_delivery_status and
\* deleteSms for a delivery report, or get_consecutive_failures and the
\* soft Reset
monitor_locks(read, then) ==
    track_locks(read) \o
    (IF Succeeded(read) THEN locked("delivery") ELSE locked("tracker")) \o
    track_locks(then)

\* process_pending_sms: get_pending, SendSMS, remove and increment or
\* increment_attempts, get_count
drain_locks(sent) ==
    locked("queue") \o track_locks(sent) \o
    (IF Succeeded(sent) THEN locked("queue") \o locked("counter")
     ELSE locked("queue")) \o
    locked("queue")

LockPrograms(t) ==
    IF t = "rest" THEN {post_locks(o) : o \in Outcomes}
    ELSE IF t = "mqtt" THEN {command_locks(o) : o \in Outcomes}
    ELSE IF t = "monitor"
    THEN {monitor_locks(o, p) : o \in Outcomes, p \in {"ok", "failed"}}
    ELSE IF t = "drain" THEN {drain_locks(o) : o \in Outcomes}
    ELSE {track_locks(o) : o \in Outcomes}

\* the threads of the lock specification
LockThreads == {"rest", "monitor", "drain"}

HeldLocks(t) == {held[t][i] : i \in 1 .. Len(held[t])}

lock_frame ==
    <<now, auto_restart_on_failure, auto_recovery, device_tracker, publisher,
      started_at, in_flight, pc, op, exited, hard_offline_since,
      request_vars, retained, mqtt_inbox, delivery_tracker, delivery_result,
      emergency, handling>>

\* a thread starts a handler
LockBegin(t, program) ==
    /\ todo[t] = <<>>
    /\ program \in LockPrograms(t)
    /\ todo' = [todo EXCEPT ![t] = program]
    /\ UNCHANGED <<lock_frame, gammu_lock, held>>

\* the thread waits at an acquire
Waits(t, lock) == todo[t] # <<>> /\ Head(todo[t]) = acquire(lock)

\* lock.acquire() returns: no thread holds the lock
LockAcquire(t) ==
    /\ todo[t] # <<>>
    /\ Head(todo[t]).do = "acquire"
    /\ \A u \in Threads : Head(todo[t]).lock \notin HeldLocks(u)
    /\ held' = [held EXCEPT ![t] = Append(@, Head(todo[t]).lock)]
    /\ todo' = [todo EXCEPT ![t] = Tail(@)]
    /\ gammu_lock' = IF Head(todo[t]).lock = LinkLock THEN t ELSE gammu_lock
    /\ UNCHANGED lock_frame

\* the end of a with-block: the lock taken last is released
LockRelease(t) ==
    /\ todo[t] # <<>>
    /\ Head(todo[t]).do = "release"
    /\ held[t] # <<>>
    /\ held[t][Len(held[t])] = Head(todo[t]).lock
    /\ held' = [held EXCEPT ![t] = SubSeq(@, 1, Len(@) - 1)]
    /\ todo' = [todo EXCEPT ![t] = Tail(@)]
    /\ gammu_lock' = IF Head(todo[t]).lock = LinkLock
                     THEN NoThread ELSE gammu_lock
    /\ UNCHANGED lock_frame

NextLocks ==
    \/ \E t \in LockThreads : \E program \in LockPrograms(t) :
          LockBegin(t, program)
    \/ \E t \in LockThreads : LockAcquire(t)
    \/ \E t \in LockThreads : LockRelease(t)

SpecLocks == Init /\ [][NextLocks]_vars

\* C31 as stated: no thread ever holds more than one of the locks (link
\* lock, tracker lock, queue lock, delivery lock, counter lock) at the
\* same time.
OneLockAtATime == \A t \in Threads : Len(held[t]) <= 1

\* C31, amended: no thread ever holds two component locks at the same
\* time; a thread holds two locks only inside track_gammu_operation, where
\* it takes the tracker's or the queue's lock while holding the link lock,
\* taken first; the order across components comes from sequential calls.
OneComponentLockAtATime ==
    \A t \in Threads :
       /\ Cardinality(HeldLocks(t) \cap ComponentLocks) <= 1
       /\ Len(held[t]) <= 2
       /\ Len(held[t]) = 2 =>
             /\ held[t][1] = LinkLock
             /\ held[t][2] \in {"tracker", "queue"}

\* C31 witness: a thread holds the link lock and, taken after it, the
\* queue's lock, while another thread holds the counter's lock
LinkThenQueueHeld ==
    \E t, u \in Threads :
       /\ held[t] = <<LinkLock, "queue">>
       /\ held[u] = <<"counter">>

\* the lock operations under the scheduling of the threads: a with-block
\* that can end does end, and a thread waiting at an acquire gets the lock
\* if the lock is free again and again
SpecLocksFair ==
    /\ Init
    /\ [][NextLocks]_vars
    /\ \A t \in LockThreads : WF_vars(LockRelease(t))
    /\ \A t \in LockThreads : SF_vars(LockAcquire(t))

AddedIsPending ==
    [][AddStep =>
          is_pending(get_pending(sms_queue', now').returns,
                     queue_result'.number, queue_result'.text)]_vars

(***************************************************************************)
(* The two stores on a disk that may refuse a write: the methods of the    *)
(* queue and of the delivery tracker that call _save, each write ending in *)
(* any of the ways it can.                                                 *)
(***************************************************************************)
\* the reference of the status reports read while the disk fails: the
\* messages are tracked in any order, so the record reported on is in any
\* position
DiskReports == {1}

NextDisk ==
    \/ \E outcome \in WriteOutcomes, number \in FrontNumbers, text \in FrontTexts :
          AddWriting(outcome, number, text)
    \/ \E outcome \in WriteOutcomes, number \in FrontNumbers, text \in FrontTexts :
          RemoveWriting(outcome, number, text)
    \/ \E outcome \in WriteOutcomes, number \in FrontNumbers, text \in FrontTexts :
          IncrementAttemptsWriting(outcome, number, text)
    \/ \E outcome \in WriteOutcomes, message_ref \in MessageRefs,
          number \in FrontNumbers, text \in FrontTexts :
          TrackSentSmsWriting(outcome, message_ref, number, text)
    \/ \E outcome \in WriteOutcomes, message_ref \in DiskReports,
          status \in DeliveryStatuses :
          UpdateDeliveryStatusWriting(outcome, message_ref, status)

SpecDisk == InitQueue /\ [][NextDisk]_vars

\* what the last queue call returns and leaves in memory when its write
\* succeeds, computed from the list it found
written_call ==
    LET q == [pending |-> queue_result.before, file |-> NoFile]
        number == queue_result.number
        text == queue_result.text
        queued_at == IF sms_queue.pending = <<>> THEN now
                     ELSE sms_queue.pending[Len(sms_queue.pending)].queued_at
    IN  CASE queue_result.op = "add" -> add(q, number, text, queued_at)
          [] queue_result.op = "remove" -> remove(q, number, text)
          [] queue_result.op = "increment_attempts" ->
                increment_attempts(q, number, text)

NextOnce ==
    \/ /\ ~sms_queue.file.exists
       /\ \E number \in FrontNumbers, text \in FrontTexts :
             \E path \in PathsOf("rest") : Receive("rest", path, number, text)
    \/ \E number \in BOOLEAN : QueueForRetry("rest", number)
    \/ \E t \in {"rest", "drain", "status"} : TrackSuccess(t)
    \/ \E t \in {"rest", "drain", "status"} : TrackFailure(t)
    \/ Sent("rest")
    \/ Failed("rest")
    \/ DrainBegin
    \/ DrainSent
    \/ DrainFailed

SpecOnce == InitFront /\ [][NextOnce]_vars

\* the calls of SendSMS that returned a result: the ones counted after the
\* send and the ones whose caller has not counted yet
SuccessfulSends ==
    sms_counter + Cardinality({t \in {"rest", "drain"} : pc[t] = "sent"})

\* C33 as stated: a message accepted by a send request is sent successfully
\* at most once: with one request accepted, SendSMS returns a result at most
\* once, whether in the handler or in a process_pending_sms that a success
\* started.
SentAtMostOnce == SuccessfulSends <= 1

(***************************************************************************)
(* The queue topic before the modem is connected, with a process that can  *)
(* die: _handle_queued_sms_from_mqtt in the order of its statements, the   *)
(* broker applying the published clear at its own time, the write of the   *)
(* queue file ending in any way, and the process killed and started again  *)
(* at any point.                                                           *)
(***************************************************************************)
\* what the steps of the handler and the crash leave alone
handling_frame ==
    <<now, auto_restart_on_failure, auto_recovery, device_tracker, publisher,
      gammu_lock, started_at, in_flight, pc, op, exited, hard_offline_since,
      queue_result, front_vars, delivery_tracker, delivery_result,
      emergency, held, todo>>

\* _on_message calls the handler, which reads the payload and, for every
\* payload but an empty one and a JSON value that is no object, publishes
\* the clear: self.client.publish(topic, '', retain=True)
HandleBegin ==
    /\ ~exited
    /\ mqtt_inbox # <<>>
    /\ handling.position \notin {"published", "added"}
    /\ LET payload == Head(mqtt_inbox)
           h == handle_queued_sms(payload)
       IN  handling' =
              IF h.queues
              THEN [payload |-> payload, position |-> "published",
                    clear_in_flight |-> TRUE]
              ELSE [handling EXCEPT !.clear_in_flight = @ \/ h.clears]
    /\ mqtt_inbox' = Tail(mqtt_inbox)
    /\ UNCHANGED <<handling_frame, retained, sms_queue>>

\* the broker applies the clear: no payload is retained, and the empty
\* payload is delivered to the subscriber
BrokerClears ==
    /\ handling.clear_in_flight
    /\ Len(mqtt_inbox) < MaxInbox
    /\ retained' = <<>>
    /\ mqtt_inbox' = Append(mqtt_inbox, <<>>)
    /\ handling' = [handling EXCEPT !.clear_in_flight = FALSE]
    /\ UNCHANGED <<handling_frame, sms_queue>>

\* added = self.sms_queue.add(number, text, smsc), the write of its _save
\* ending as outcome
HandleAdd(outcome) ==
    /\ ~exited
    /\ handling.position = "published"
    /\ LET data == json_loads(handling.payload)
       IN  sms_queue' = persist(outcome, sms_queue,
                                add(sms_queue, number_of(data), text_of(data),
                                    now)).queue
    /\ handling' = [handling EXCEPT !.position = "added"]
    /\ UNCHANGED <<handling_frame, retained, mqtt_inbox>>

\* the modem is not connected yet: the handler logs that the message will
\* be sent later and returns
HandleReturn ==
    /\ ~exited
    /\ handling.position = "added"
    /\ handling' = [handling EXCEPT !.position = "returned"]
    /\ UNCHANGED <<handling_frame, retained, mqtt_inbox, sms_queue>>

\* the process is killed and started again: the payloads delivered and the
\* pending list are gone, SMSQueue is constructed from the file, and the
\* clear not yet applied is lost with the process or is on its way
Crash(clear_survives) ==
    /\ ~exited
    /\ sms_queue' = load(sms_queue.file, now)
    /\ mqtt_inbox' = <<>>
    /\ handling' = [payload |-> handling.payload,
                    position |-> IF handling.position = "idle" THEN "idle"
                                 ELSE "crashed",
                    clear_in_flight |->
                       handling.clear_in_flight /\ clear_survives]
    /\ UNCHANGED <<handling_frame, retained>>

\* the clients publish a message when the topic retains none, so that no
\* message is replaced on the topic by the next one
NextCrash ==
    \/ /\ retained = <<>>
       /\ \E payload \in Payloads : PublishQueuedSms(payload)
    \/ Subscribe
    \/ HandleBegin
    \/ BrokerClears
    \/ \E outcome \in WriteOutcomes : HandleAdd(outcome)
    \/ HandleReturn
    \/ \E clear_survives \in BOOLEAN : Crash(clear_survives)

SpecCrash == InitQueue /\ [][NextCrash]_vars

\* the payload carries the recipient and the text of the message in the
\* hands of the handler
carries_handled(payload) ==
    /\ handle_queued_sms(payload).queues
    /\ number_of(json_loads(payload)) =
          number_of(json_loads(handling.payload))
    /\ text_of(json_loads(payload)) = text_of(json_loads(handling.payload))

\* C35 as stated: a well-formed message consumed from the queue topic is
\* never lost by a crash: from the moment the handler has read it, the
\* message is retained on the topic or is an entry of the queue file, at
\* every point of the handling and after a crash.
NeverLostByCrash ==
    handling.position # "idle" =>
       \/ carries_handled(retained)
       \/ is_pending(sms_queue.file.pending,
                     number_of(json_loads(handling.payload)),
                     text_of(json_loads(handling.payload)))

====
